---------------------------- MODULE Spec2Model ----------------------------
(***************************************************************************)
(* Scheduling and execution pipeline of the Telegram digest service:       *)
(*   worker/scheduler.py     main, _schedule_due_templates, is_template_due*)
(*   worker/processor.py     process_template, _finalize_template_run,     *)
(*                           _collect_messages_from_data                  *)
(*   app/routers/templates.py run_template_now, toggle_template,           *)
(*                           create_template, update_template,            *)
(*                           delete_template                              *)
(*   app/schemas.py          TemplateBase.validate_frequency               *)
(*   app/telegram_client.py  fetch_messages                                *)
(*   app/deepseek_client.py  summarize_messages, _call_deepseek_api,       *)
(*                           _format_posts_for_prompt, _fix_truncated_output*)
(*                                                                         *)
(* Time is counted in whole hours.  Every `await` on the database or the   *)
(* network is a point where other coroutines and the other process (API    *)
(* server / scheduler worker) may run, so a handler is split into one      *)
(* action per stretch of code between two such points that touches shared  *)
(* state.  The load phase and the finalize phase of process_template are   *)
(* one database transaction each and are one action each.  In Spec storage *)
(* works: statements and commits on existing rows succeed; SpecStuck adds  *)
(* a finalize phase that fails.  Primary keys are never reused.  A toggle  *)
(* or update request of the owner is one action: its UPDATE carries only   *)
(* the columns the handler assigned.  In Spec a summarize_messages call is *)
(* one step that returns or raises; SpecSumm follows the call attempt by   *)
(* attempt.  Message texts are kept by their lengths where only lengths    *)
(* matter and as sequences of characters where the text is looked into.    *)
(* A delete request is one action in Spec and its two halves (read,        *)
(* commit) in SpecDelete.  Channels publish further posts in SpecFeed only. *)
(***************************************************************************)
EXTENDS Integers, Sequences, FiniteSets, TLC

\* Optional values (Python None or a value): the empty tuple or a 1-tuple.
None == <<>>
Some(v) == <<v>>
Val(o) == o[1]

\* ------------------------------------------------------------------ bounds
NumJobs == 2          \* templates in the Job Store
MaxExecs == 2         \* process_template / run-now invocations per behaviour
MaxTime == 6         \* the clock stops advancing here
MaxOwnerOps == 1      \* toggle / delete requests per behaviour

Jobs == 1..NumJobs
Channels == {"@a", "@b"}
AllowedFrequencies == {6, 12, 24}
HoursBackInputs == {None, Some(6)}

VARIABLES
    templates,   \* table templates: id -> row, for the ids that have a row
    run_logs,    \* table run_logs: id -> row, for the ids that have a row
    run_log_seq, \* the last primary key given out in run_logs
    now,         \* the wall clock, datetime.now(tz=utc)
    posts,       \* channel -> set of dates of the posts published in it
    schedPc,     \* where the scheduler loop is: "sleep" (between two ticks),
                 \* "commit", "dispatch", "failed" (in the except clause)
    schedIds,    \* the due templates of the tick in progress (due_templates / ids)
    execs,       \* every process_template / run_template_now invocation so far
    ownerOps,    \* number of owner requests served
    summ,        \* the summarize_messages call in flight (deepseek_client)
    response,    \* the answer to the last create_template / update_template request
    deleting     \* the delete_template request between its read and its commit

vars == <<templates, run_logs, run_log_seq, now, posts, schedPc, schedIds, execs,
         ownerOps, summ, response, deleting>>

\* ----------------------------------------------------------------- helpers
Max(S) == CHOOSE x \in S : \A y \in S : y <= x
Min(S) == CHOOSE x \in S : \A y \in S : x <= y

RECURSIVE SortedSeq(_)
\* A finite set of integers as an ascending sequence.
SortedSeq(S) == IF S = {} THEN <<>> ELSE <<Min(S)>> \o SortedSeq(S \ {Min(S)})

Range(s) == {s[i] : i \in DOMAIN s}

Exists(id) == id \in DOMAIN templates

\* ------------------------------------------------------------ is_template_due
IsDueStrict(last_run_at, frequency_hours, t) ==
    IF last_run_at = None THEN TRUE
    ELSE t > Val(last_run_at) + frequency_hours

\* scheduler.py is_template_due(template, now)
is_template_due(last_run_at, frequency_hours, t) ==
    IF last_run_at = None THEN TRUE
    ELSE LET next_run == Val(last_run_at) + frequency_hours
         IN  t >= next_run

\* ---------------------------------------------------------------- scheduler
CandidatesNoFlagCheck == {id \in Jobs : Exists(id) /\ templates[id].is_active}

\* The SELECT of _schedule_due_templates: is_active IS TRUE AND in_progress IS FALSE
Candidates ==
    {id \in Jobs : Exists(id) /\ templates[id].is_active /\ ~templates[id].in_progress}

DueTemplates ==
    {id \in Candidates :
        is_template_due(templates[id].last_run_at, templates[id].frequency_hours, now)}

\* Invocations that are queued or started, against MaxExecs.
Started == Len(execs) + Len(schedIds)

\* First half of a tick: read the candidates, fix the due set; with nothing
\* due the tick returns and the loop sleeps again.
TickRead ==
    /\ schedPc = "sleep"
    /\ Started + Cardinality(DueTemplates) <= MaxExecs
    /\ IF DueTemplates = {}
       THEN UNCHANGED <<schedPc, schedIds>>
       ELSE /\ schedIds' = SortedSeq(DueTemplates)
            /\ schedPc' = "commit"
    /\ UNCHANGED <<deleting, response, summ, templates, run_logs, run_log_seq, now, posts, execs, ownerOps>>

MarkInProgress(tbl, ids) ==
    [id \in DOMAIN tbl |-> IF id \in ids
                           THEN [tbl[id] EXCEPT !.in_progress = TRUE]
                           ELSE tbl[id]]

\* Second half: tpl.in_progress = True for every due template, one commit.
\* A due template deleted since the read makes the flush fail (no row
\* matched); the tick ends there, without dispatching, and the exception
\* reaches the except clause of main().  With
\* the autocommit SQLite connection of db.py the rows already updated stay
\* updated, under a transactional database they are rolled back.
TickCommit ==
    /\ schedPc = "commit"
    /\ IF \A i \in DOMAIN schedIds : Exists(schedIds[i])
       THEN /\ templates' = MarkInProgress(templates, Range(schedIds))
            /\ schedPc' = "dispatch"
            /\ UNCHANGED schedIds
       ELSE /\ \/ UNCHANGED templates
               \/ templates' = MarkInProgress(templates, Range(schedIds))
            /\ schedPc' = "failed"
            /\ schedIds' = <<>>
    /\ UNCHANGED <<deleting, response, summ, run_logs, run_log_seq, now, posts, execs, ownerOps>>

TickFailedExits ==
    /\ schedPc = "failed"
    /\ schedPc' = "stopped"
    /\ UNCHANGED <<deleting, response, summ, templates, run_logs, run_log_seq, now, posts, schedIds, execs, ownerOps>>

\* except Exception: logger.exception("Scheduler iteration failed"); the loop
\* goes on to asyncio.sleep(interval) and, after it, to the next tick.
TickFailed ==
    /\ schedPc = "failed"
    /\ schedPc' = "sleep"
    /\ UNCHANGED <<deleting, response, summ, templates, run_logs, run_log_seq, now, posts, schedIds, execs, ownerOps>>

\* A new invocation.  Beside the local variables of the code it records, for
\* the properties: held (a scheduler-dispatched execution whose template's
\* flag has been true ever since the dispatch), attempts (the fetch attempts
\* made), nSumm and nSend (summarizer and delivery calls made), phases (the
\* phases run so far), finalize_failed (its finalize phase ended in the except
\* clause of _finalize_template_run).
NewExec(id, origin, pc, hb) ==
    [template_id |-> id, origin |-> origin, pc |-> pc, hours_back |-> hb,
     from_dt |-> None, run_log_id |-> None, sources_data |-> <<>>,
     messages |-> <<>>, success |-> FALSE, messages_count |-> 0,
     error_message |-> None, result |-> None,
     held |-> (origin = "sched" /\ Exists(id) /\ templates[id].in_progress),
     attempts |-> <<>>, nSumm |-> 0, nSend |-> 0, phases |-> <<>>,
     finalize_failed |-> FALSE]

\* A mutation of TickDispatch: the tick waits for the tasks it created.
TickDispatchAwaits ==
    /\ schedPc = "dispatch"
    /\ execs' = execs \o [i \in DOMAIN schedIds |->
                            NewExec(schedIds[i], "sched", "load", None)]
    /\ schedPc' = "gather"
    /\ schedIds' = <<>>
    /\ UNCHANGED <<deleting, response, summ, templates, run_logs, run_log_seq, now, posts, ownerOps>>

\* asyncio.create_task(process_template(template_id)) for every id.
TickDispatch ==
    /\ schedPc = "dispatch"
    /\ execs' = execs \o [i \in DOMAIN schedIds |->
                            NewExec(schedIds[i], "sched", "load", None)]
    /\ schedPc' = "sleep"
    /\ schedIds' = <<>>
    /\ UNCHANGED <<deleting, response, summ, templates, run_logs, run_log_seq, now, posts, ownerOps>>


\* ------------------------------------------------------------ fetch_messages
ChatId == [ch \in Channels |-> IF ch = "@a" THEN "101" ELSE "102"]

\* The channel a candidate (a handle or a numeric chat id) names.
ChannelOf(candidate) ==
    IF candidate \in Channels THEN candidate
    ELSE CHOOSE ch \in Channels : ChatId[ch] = candidate

\* telegram_client.fetch_messages when it does not raise: iter_messages goes
\* from the newest post back and stops at the first one with
\* date <= from_datetime; the result is reversed, so oldest first.
fetch_messages(candidate, from_datetime) ==
    LET ch    == ChannelOf(candidate)
        dates == SortedSeq({d \in posts[ch] :
                                from_datetime = None \/ d > Val(from_datetime)})
    IN  [i \in DOMAIN dates |-> [source |-> ch, date |-> dates[i]]]

\* ------------------------------------------------ _collect_messages_from_data
\* candidates of one source: the identifier first, then the chat id.
CandidatesOf(source) ==
    (IF source.identifier # "" THEN <<source.identifier>> ELSE <<>>)
        \o (IF source.chat_id # None THEN <<Val(source.chat_id)>> ELSE <<>>)

RECURSIVE TryAllCandidates(_, _, _, _, _)
\* A mutation of TryCandidates: no break after a successful fetch.
TryAllCandidates(cands, k, i, from_dt, ok) ==
    IF k > Len(cands) THEN [messages |-> <<>>, attempts |-> <<>>]
    ELSE LET att  == [src |-> i, candidate |-> cands[k], ok |-> ok[<<i, k>>],
                      from_datetime |-> from_dt]
             rest == TryAllCandidates(cands, k + 1, i, from_dt, ok)
         IN  [messages |-> (IF ok[<<i, k>>] THEN fetch_messages(cands[k], from_dt)
                            ELSE <<>>) \o rest.messages,
              attempts |-> <<att>> \o rest.attempts]

RECURSIVE TryCandidates(_, _, _, _, _)
\* The inner loop over the candidates of source i, from candidate k on:
\* the first fetch that does not raise contributes its messages and ends the
\* loop (break); a fetch that raises is logged and the next one is tried.
\* ok[<<i, k>>] tells whether the k-th attempt for source i succeeds.
\* Every attempt is recorded with the from_datetime it passed to the fetch.
TryCandidates(cands, k, i, from_dt, ok) ==
    IF k > Len(cands) THEN [messages |-> <<>>, attempts |-> <<>>]
    ELSE LET att == [src |-> i, candidate |-> cands[k], ok |-> ok[<<i, k>>],
                     from_datetime |-> from_dt]
         IN  IF ok[<<i, k>>]
             THEN [messages |-> fetch_messages(cands[k], from_dt), attempts |-> <<att>>]
             ELSE LET rest == TryCandidates(cands, k + 1, i, from_dt, ok)
                  IN  [messages |-> rest.messages, attempts |-> <<att>> \o rest.attempts]

RECURSIVE CollectAbortOnError(_, _, _, _)
CollectAbortOnError(sources_data, i, from_dt, ok) ==
    IF i > Len(sources_data) THEN [messages |-> <<>>, attempts |-> <<>>, raised |-> FALSE]
    ELSE LET cands == CandidatesOf(sources_data[i])
             att   == [src |-> i, candidate |-> cands[1], ok |-> ok[<<i, 1>>],
                       from_datetime |-> from_dt]
         IN  IF cands # <<>> /\ ~ok[<<i, 1>>]
             THEN [messages |-> <<>>, attempts |-> <<att>>, raised |-> TRUE]
             ELSE LET one  == TryCandidates(cands, 1, i, from_dt, ok)
                      rest == CollectAbortOnError(sources_data, i + 1, from_dt, ok)
                  IN  [messages |-> IF rest.raised THEN <<>>
                                    ELSE one.messages \o rest.messages,
                       attempts |-> one.attempts \o rest.attempts,
                       raised |-> rest.raised]

RECURSIVE CollectFrom(_, _, _, _)
\* The outer loop over the sources, from source i on: collected.extend(...).
\* Every exception of a fetch is caught in the inner loop, so none leaves
\* the function (raised is FALSE).
CollectFrom(sources_data, i, from_dt, ok) ==
    IF i > Len(sources_data) THEN [messages |-> <<>>, attempts |-> <<>>, raised |-> FALSE]
    ELSE LET one  == TryCandidates(CandidatesOf(sources_data[i]), 1, i, from_dt, ok)
             rest == CollectFrom(sources_data, i + 1, from_dt, ok)
         IN  [messages |-> one.messages \o rest.messages,
              attempts |-> one.attempts \o rest.attempts,
              raised |-> FALSE]

\* The fetch attempts a source list can lead to: (source, candidate) positions.
AttemptIds(sources_data) ==
    {<<i, k>> \in (DOMAIN sources_data) \X (1..2) :
        k <= Len(CandidatesOf(sources_data[i]))}

\* _collect_messages_from_data(sources_data, last_run_at) under fetch outcomes ok
collect_messages_from_data(sources_data, last_run_at, ok) ==
    CollectFrom(sources_data, 1, last_run_at, ok)


\* ----------------------------------------------------------- run_template_now
\* RunNowResponse(success=False, error="Обработка уже выполняется")
RunNowRefused ==
    Some([raised |-> FALSE, success |-> FALSE, messages_count |-> 0,
          error |-> Some("already running")])

\* A mutation of RunNowBegin: the flag is not looked at.
RunNowBeginUnchecked(id, hb) ==
    /\ Exists(id)
    /\ Started < MaxExecs
    /\ execs' = Append(execs, NewExec(id, "manual", "rn_commit", hb))
    /\ UNCHANGED <<deleting, response, summ, templates, run_logs, run_log_seq, now, posts, schedPc, schedIds, ownerOps>>

\* run_template_now up to its first commit: _get_template, then the check of
\* template.in_progress on the row just read.  A refused request changes
\* nothing; an accepted one goes on to set the flag (RunNowCommit).
RunNowBegin(id, hb) ==
    /\ Exists(id)
    /\ Started < MaxExecs
    /\ IF templates[id].in_progress
       THEN execs' = Append(execs, [NewExec(id, "manual", "done", None) EXCEPT
                        !.result = RunNowRefused])
       ELSE execs' = Append(execs, NewExec(id, "manual", "rn_commit", hb))
    /\ UNCHANGED <<deleting, response, summ, templates, run_logs, run_log_seq, now, posts, schedPc, schedIds, ownerOps>>

\* template.in_progress = True; await session.commit(); then from_dt from
\* hours_back and the call of process_template.  A template deleted since
\* the read makes the commit fail and the request ends with that exception.
RunNowCommit(e) ==
    LET x == execs[e] IN
    /\ x.pc = "rn_commit"
    /\ IF Exists(x.template_id)
       THEN /\ templates' = MarkInProgress(templates, {x.template_id})
            /\ execs' = [execs EXCEPT ![e].pc = "load",
                            ![e].hours_back = None,
                            ![e].from_dt =
                                IF x.hours_back # None /\ Val(x.hours_back) # 0
                                THEN Some(now - Val(x.hours_back)) ELSE None]
       ELSE /\ execs' = [execs EXCEPT ![e].pc = "done", ![e].hours_back = None,
                            ![e].result = Some([raised |-> TRUE])]
            /\ UNCHANGED templates
    /\ UNCHANGED <<deleting, response, summ, run_logs, run_log_seq, now, posts, schedPc, schedIds, ownerOps>>

\* ------------------------------------------------------------ process_template
ProcessResult(success, messages_count, error) ==
    Some([raised |-> FALSE, success |-> success,
          messages_count |-> messages_count, error |-> error])

NewRunLogPending(template_id) ==
    [template_id |-> template_id, status |-> "pending", messages_count |-> 0,
     finished_at |-> None, error_message |-> None]

\* RunLog(template_id=tpl_id, status="running"); the other columns take
\* their defaults.
NewRunLog(template_id) ==
    [template_id |-> template_id, status |-> "running", messages_count |-> 0,
     finished_at |-> None, error_message |-> None]

\* sources_data: the identifier and the chat id of every source row.
SourcesData(rows) ==
    [i \in DOMAIN rows |-> [identifier |-> rows[i].identifier,
                            chat_id |-> rows[i].chat_id]]

LoadWithoutLookup(e) ==
    LET x  == execs[e]
        id == x.template_id IN
    /\ x.pc = "load"
    /\ run_log_seq' = run_log_seq + 1
    /\ run_logs' = (run_log_seq + 1 :> NewRunLog(id)) @@ run_logs
    /\ execs' = [execs EXCEPT ![e].pc = "collect",
                    ![e].sources_data = IF Exists(id)
                                        THEN SourcesData(templates[id].sources) ELSE <<>>,
                    ![e].from_dt = IF x.from_dt = None /\ Exists(id)
                                   THEN templates[id].last_run_at ELSE x.from_dt,
                    ![e].run_log_id = Some(run_log_seq + 1),
                    ![e].phases = Append(@, "load")]
    /\ UNCHANGED <<deleting, response, summ, templates, now, posts, schedPc, schedIds, ownerOps>>

LoadIgnoresOverride(e) ==
    LET x  == execs[e]
        id == x.template_id IN
    /\ x.pc = "load"
    /\ IF ~Exists(id)
       THEN /\ execs' = [execs EXCEPT ![e].pc = "done",
                            ![e].result = ProcessResult(FALSE, 0, Some("Template not found"))]
            /\ UNCHANGED <<run_logs, run_log_seq>>
       ELSE /\ run_log_seq' = run_log_seq + 1
            /\ run_logs' = (run_log_seq + 1 :> NewRunLog(id)) @@ run_logs
            /\ execs' = [execs EXCEPT ![e].pc = "collect",
                            ![e].sources_data = SourcesData(templates[id].sources),
                            ![e].from_dt = templates[id].last_run_at,
                            ![e].run_log_id = Some(run_log_seq + 1),
                            ![e].phases = Append(@, "load")]
    /\ UNCHANGED <<deleting, response, summ, templates, now, posts, schedPc, schedIds, ownerOps>>

\* Step 1: load the template and its sources, create the run_log row with
\* status "running" and commit it.
Load(e) ==
    LET x  == execs[e]
        id == x.template_id IN
    /\ x.pc = "load"
    /\ IF ~Exists(id)
       THEN /\ execs' = [execs EXCEPT ![e].pc = "done",
                            ![e].result = ProcessResult(FALSE, 0, Some("Template not found"))]
            /\ UNCHANGED <<run_logs, run_log_seq>>
       ELSE /\ run_log_seq' = run_log_seq + 1
            /\ run_logs' = (run_log_seq + 1 :> NewRunLog(id)) @@ run_logs
            /\ execs' = [execs EXCEPT ![e].pc = "collect",
                            ![e].sources_data = SourcesData(templates[id].sources),
                            ![e].from_dt = IF x.from_dt = None
                                           THEN templates[id].last_run_at ELSE x.from_dt,
                            ![e].run_log_id = Some(run_log_seq + 1),
                            ![e].phases = Append(@, "load")]
    /\ UNCHANGED <<deleting, response, summ, templates, now, posts, schedPc, schedIds, ownerOps>>

AfterCollectAlwaysSummarize(got) ==
    IF got.raised THEN "finalize" ELSE "summarize"

\* `if not messages:` finalizes at once; otherwise the summarizer is next.
AfterCollect(got) ==
    IF got.raised \/ got.messages = <<>> THEN "finalize" ELSE "summarize"

\* messages = await _collect_messages_from_data(sources_data, from_dt); an
\* empty result goes straight to _finalize_template_run(success=True, 0), an
\* exception to the except branch.
Collect(e) ==
    LET x == execs[e] IN
    /\ x.pc = "collect"
    /\ \E ok \in [AttemptIds(x.sources_data) -> BOOLEAN] :
         LET got == collect_messages_from_data(x.sources_data, x.from_dt, ok) IN
         execs' = [execs EXCEPT ![e].messages = got.messages,
                       ![e].attempts = got.attempts,
                       ![e].phases = Append(@, "collect"),
                       ![e].success = ~got.raised /\ got.messages = <<>>,
                       ![e].error_message =
                            IF got.raised THEN Some("fetch failed") ELSE None,
                       ![e].pc = AfterCollect(got)]
    /\ UNCHANGED <<deleting, response, summ, templates, run_logs, run_log_seq, now, posts, schedPc, schedIds, ownerOps>>

SummarizeIgnoresFailure(e) ==
    /\ execs[e].pc = "summarize"
    /\ execs' = [execs EXCEPT ![e].pc = "deliver",
                     ![e].nSumm = @ + 1,
                     ![e].phases = Append(@, "summarize")]
    /\ UNCHANGED <<deleting, response, summ, templates, run_logs, run_log_seq, now, posts, schedPc, schedIds, ownerOps>>

\* What process_template sees of a summarize_messages call: it returns, or
\* an exception with some text leaves it.
SummarizerOutcomes ==
    {[raised |-> FALSE, error |-> ""], [raised |-> TRUE, error |-> "summarize failed"]}

\* process_template after the await of summarize_messages:
\* messages_count = len(messages) when it returned; an exception goes to the
\* except branch, error_message = str(exc) and finalize with success=False.
AfterSummarize(x, out) ==
    IF out.raised
    THEN [x EXCEPT !.pc = "finalize",
                   !.nSumm = @ + 1,
                   !.success = FALSE,
                   !.error_message = Some(out.error),
                   !.phases = Append(@, "summarize")]
    ELSE [x EXCEPT !.pc = "deliver",
                   !.nSumm = @ + 1,
                   !.messages_count = Len(x.messages),
                   !.phases = Append(@, "summarize")]

\* summary_result = await summarize_messages(...), as one step with either outcome.
Summarize(e) ==
    LET x == execs[e] IN
    /\ x.pc = "summarize"
    /\ \E out \in SummarizerOutcomes :
          execs' = [execs EXCEPT ![e] = AfterSummarize(x, out)]
    /\ UNCHANGED <<deleting, response, summ, templates, run_logs, run_log_seq, now, posts, schedPc, schedIds, ownerOps>>

\* await send_message(target_chat, summary_text)
Deliver(e) ==
    LET x == execs[e] IN
    /\ x.pc = "deliver"
    /\ \/ execs' = [execs EXCEPT ![e].pc = "finalize",
                        ![e].nSend = @ + 1,
                        ![e].success = TRUE,
                        ![e].phases = Append(@, "deliver")]
       \/ execs' = [execs EXCEPT ![e].pc = "finalize",
                        ![e].nSend = @ + 1,
                        ![e].success = FALSE,
                        ![e].error_message = Some("send failed"),
                        ![e].phases = Append(@, "deliver")]
    /\ UNCHANGED <<deleting, response, summ, templates, run_logs, run_log_seq, now, posts, schedPc, schedIds, ownerOps>>


\* ------------------------------------------------------ _finalize_template_run
FinalizeKeepFlag(tbl, template_id, success, t) ==
    IF template_id \in DOMAIN tbl
    THEN [tbl EXCEPT ![template_id].last_run_at = IF success THEN Some(t) ELSE @]
    ELSE tbl

FinalizeAlwaysAdvance(tbl, template_id, success, t) ==
    IF template_id \in DOMAIN tbl
    THEN [tbl EXCEPT ![template_id].in_progress = FALSE,
                     ![template_id].last_run_at = Some(t)]
    ELSE tbl

FinalizeEveryTemplate(tbl, template_id, success, t) ==
    IF template_id \in DOMAIN tbl
    THEN [id \in DOMAIN tbl |->
            [tbl[id] EXCEPT !.in_progress = FALSE,
                            !.last_run_at = IF success /\ id = template_id THEN Some(t) ELSE @]]
    ELSE tbl

\* The template half: in_progress = False, and last_run_at = now on success.
FinalizeTemplate(tbl, template_id, success, t) ==
    IF template_id \in DOMAIN tbl
    THEN [tbl EXCEPT ![template_id].in_progress = FALSE,
                     ![template_id].last_run_at = IF success THEN Some(t) ELSE @]
    ELSE tbl

FinalizeRunLogOfTemplate(logs, run_log_id, success, messages_count, error_message, t) ==
    IF run_log_id # None /\ Val(run_log_id) \in DOMAIN logs
    THEN [r \in DOMAIN logs |->
            IF logs[r].template_id = logs[Val(run_log_id)].template_id
            THEN [logs[r] EXCEPT !.status = IF success THEN "success" ELSE "error",
                                 !.messages_count = messages_count,
                                 !.finished_at = Some(t)]
            ELSE logs[r]]
    ELSE logs

\* The run_log half: status, messages_count, finished_at, error_message.
FinalizeRunLog(logs, run_log_id, success, messages_count, error_message, t) ==
    IF run_log_id # None /\ Val(run_log_id) \in DOMAIN logs
    THEN [logs EXCEPT ![Val(run_log_id)] =
            [@ EXCEPT !.status = IF success THEN "success" ELSE "error",
                      !.messages_count = messages_count,
                      !.finished_at = Some(t),
                      !.error_message = IF error_message # None /\ Val(error_message) # ""
                                        THEN error_message ELSE @]]
    ELSE logs

\* Executions whose template's flag stops being continuously true.
Unheld(xs, ids) ==
    [i \in DOMAIN xs |-> IF xs[i].template_id \in ids
                         THEN [xs[i] EXCEPT !.held = FALSE] ELSE xs[i]]

FinalizeReturnsCollected(e) ==
    LET x     == execs[e]
        id    == x.template_id
        count == IF x.success THEN x.messages_count ELSE 0
        err   == IF x.success THEN None ELSE x.error_message
    IN
    /\ x.pc = "finalize"
    /\ templates' = FinalizeTemplate(templates, id, x.success, now)
    /\ run_logs' = FinalizeRunLog(run_logs, x.run_log_id, x.success, count, err, now)
    /\ execs' = [Unheld(execs, {id}) EXCEPT ![e].pc = "done",
                    ![e].result = ProcessResult(x.success, Len(x.messages), err),
                    ![e].phases = Append(@, "finalize")]
    /\ UNCHANGED <<deleting, response, summ, run_log_seq, now, posts, schedPc, schedIds, ownerOps>>

\* The three calls of _finalize_template_run in process_template, each
\* followed by the return of the ProcessResult: (success=True,
\* messages_count=0) after an empty collection, (success=True,
\* messages_count) after the delivery, (success=False, error_message) in the
\* except branch, where messages_count keeps its default 0.
Finalize(e) ==
    LET x     == execs[e]
        id    == x.template_id
        count == IF x.success THEN x.messages_count ELSE 0
        err   == IF x.success THEN None ELSE x.error_message
    IN
    /\ x.pc = "finalize"
    /\ templates' = FinalizeTemplate(templates, id, x.success, now)
    /\ run_logs' = FinalizeRunLog(run_logs, x.run_log_id, x.success, count, err, now)
    /\ execs' = [Unheld(execs, {id}) EXCEPT ![e].pc = "done",
                    ![e].result = ProcessResult(x.success, count, err),
                    ![e].phases = Append(@, "finalize")]
    /\ UNCHANGED <<deleting, response, summ, run_log_seq, now, posts, schedPc, schedIds, ownerOps>>

\* _finalize_template_run when an exception is raised inside it: the except
\* clause logs it and process_template returns its ProcessResult all the same.
\* Nothing is written when the exception comes before the flush or the
\* database rolls back; with the autocommit SQLite connection of db.py the
\* UPDATE of the template, flushed first, stays when the UPDATE of the
\* run_log fails.
FinalizeFails(e) ==
    LET x     == execs[e]
        id    == x.template_id
        count == IF x.success THEN x.messages_count ELSE 0
        err   == IF x.success THEN None ELSE x.error_message
        done  == [x EXCEPT !.pc = "done",
                           !.result = ProcessResult(x.success, count, err),
                           !.phases = Append(@, "finalize"),
                           !.finalize_failed = TRUE]
    IN
    /\ x.pc = "finalize"
    /\ \/ /\ UNCHANGED templates
          /\ execs' = [execs EXCEPT ![e] = done]
       \/ /\ templates' = FinalizeTemplate(templates, id, x.success, now)
          /\ execs' = [Unheld(execs, {id}) EXCEPT ![e] = [done EXCEPT !.held = FALSE]]
    /\ UNCHANGED <<deleting, response, summ, run_logs, run_log_seq, now, posts, schedPc, schedIds, ownerOps>>

\* -------------------------------------------------------------- owner requests
\* toggle_template
Toggle(id) ==
    /\ ownerOps < MaxOwnerOps
    /\ Exists(id)
    /\ templates' = [templates EXCEPT ![id].is_active = ~@]
    /\ ownerOps' = ownerOps + 1
    /\ UNCHANGED <<deleting, response, summ, run_logs, run_log_seq, now, posts, schedPc, schedIds, execs>>

\* The primary keys in use in table template_sources.
SourceIds ==
    UNION {{templates[t].sources[i].id : i \in DOMAIN templates[t].sources} :
                t \in DOMAIN templates}

\* existing_sources = {src.source_identifier: src for src in template.sources}:
\* of several rows with one identifier the last one stays in the dict.
existing_sources(rows) ==
    [s \in {rows[i].identifier : i \in DOMAIN rows} |->
        rows[Max({i \in DOMAIN rows : rows[i].identifier = s})]]

\* The source rows of a template after update_template: the rows the new
\* list names through existing_sources stay as they are, every entry of the
\* new list that names no existing row gets a row of its own (primary keys
\* above base), every other old row is deleted as an orphan.  Rows are read
\* back in primary-key order.
ReplaceSources(rows, new, base) ==
    LET existing == existing_sources(rows)
        Kept(r)  == r.identifier \in Range(new) /\ existing[r.identifier] = r
        IsNew(s) == s \notin DOMAIN existing
        fresh    == SelectSeq(new, IsNew)
    IN  SelectSeq(rows, Kept)
            \o [i \in DOMAIN fresh |->
                    [id |-> base + i, identifier |-> fresh[i], chat_id |-> None]]

UpdateResetsRun(id, u) ==
    /\ ownerOps < MaxOwnerOps
    /\ Exists(id)
    /\ templates' = [templates EXCEPT ![id] =
            [frequency_hours |-> u.frequency_hours, is_active |-> u.is_active,
             in_progress |-> FALSE, last_run_at |-> None,
             sources |-> ReplaceSources(@.sources, u.sources, Max(SourceIds \cup {0}))]]
    /\ ownerOps' = ownerOps + 1
    /\ UNCHANGED <<deleting, response, summ, run_logs, run_log_seq, now, posts, schedPc, schedIds, execs>>

\* update_template with a validated TemplateUpdate u: cadence, active flag
\* and source list are replaced (name, target and custom prompt play no part
\* here); the UPDATE writes the columns that were assigned and no other.
Update(id, u) ==
    /\ ownerOps < MaxOwnerOps
    /\ Exists(id)
    /\ templates' = [templates EXCEPT
            ![id].frequency_hours = u.frequency_hours,
            ![id].is_active = u.is_active,
            ![id].sources = ReplaceSources(@, u.sources, Max(SourceIds \cup {0}))]
    /\ ownerOps' = ownerOps + 1
    /\ UNCHANGED <<deleting, response, summ, run_logs, run_log_seq, now, posts, schedPc, schedIds, execs>>

\* delete_template when nothing comes between its read and its commit: the
\* row goes, and with it (cascade="all, delete-orphan") its sources and its
\* run_logs.  DeleteRead and DeleteCommit are the two halves.
Delete(id) ==
    /\ ownerOps < MaxOwnerOps
    /\ Exists(id)
    /\ templates' = [k \in DOMAIN templates \ {id} |-> templates[k]]
    /\ run_logs' = [k \in {r \in DOMAIN run_logs : run_logs[r].template_id # id}
                        |-> run_logs[k]]
    /\ execs' = Unheld(execs, {id})
    /\ ownerOps' = ownerOps + 1
    /\ UNCHANGED <<deleting, response, summ, run_log_seq, now, posts, schedPc, schedIds>>

\* delete_template, first half: _get_template reads the row and, with it, the
\* run_logs of the template (relationship logs, lazy="selectin"); a missing
\* row is answered 404.
DeleteRead(id) ==
    /\ ownerOps < MaxOwnerOps
    /\ deleting = None
    /\ Exists(id)
    /\ deleting' = Some([template_id |-> id,
                         logs |-> {r \in DOMAIN run_logs : run_logs[r].template_id = id}])
    /\ UNCHANGED <<response, summ, templates, run_logs, run_log_seq, now, posts, schedPc, schedIds, execs, ownerOps>>

\* delete_template, second half: session.delete(template) and the commit.
\* The unit of work deletes the source rows and the run_logs it has read,
\* then the template; SQLite does not enforce the foreign keys (db.py sets no
\* PRAGMA foreign_keys), so ondelete="CASCADE" removes nothing more, and a
\* run_log committed after the read stays.
DeleteCommit ==
    LET id == Val(deleting).template_id IN
    /\ deleting # None
    /\ templates' = [k \in DOMAIN templates \ {id} |-> templates[k]]
    /\ run_logs' = [k \in DOMAIN run_logs \ Val(deleting).logs |-> run_logs[k]]
    /\ execs' = Unheld(execs, {id})
    /\ ownerOps' = ownerOps + 1
    /\ deleting' = None
    /\ UNCHANGED <<response, summ, run_log_seq, now, posts, schedPc, schedIds>>

\* ------------------------------------------------------------------ environment
ClockStep == 6

\* Time passes.
Tick ==
    /\ now + ClockStep <= MaxTime
    /\ now' = now + ClockStep
    /\ UNCHANGED <<deleting, response, summ, templates, run_logs, run_log_seq, posts, schedPc, schedIds, execs, ownerOps>>

\* ------------------------------------------------------------ deepseek_client
MAX_INPUT_CHARS == 15000
MAX_POSTS == 50
MaxPostChars == 1000       \* text[:1000]
StopAfterAttempt == 3      \* stop_after_attempt(3)

\* A message of the input list.  Its text is kept by its lengths: len
\* characters with pad whitespace characters around them; its link by its
\* length, 0 for no link.
Message(pad, len, link) == [text |-> [pad |-> pad, len |-> len], link |-> link]

\* A message as fetch_messages returns it: text that is not blank, and a link.
PostMessage == Message(0, 40, 20)

\* len(str(i))
Digits(i) == IF i < 10 THEN 1 ELSE IF i < 100 THEN 2 ELSE 3

\* post_block of the message at position i of the list, i counted from 1 by
\* enumerate: "[Post i]" and a newline (8 characters and the digits of i),
\* the stripped text cut to 1000 characters plus "...", and for a message
\* with a link a newline and the link line (9 characters and the link).
PostBlock(i, msg) ==
    LET stripped == msg.text.len
        text     == IF stripped > MaxPostChars THEN MaxPostChars + 3 ELSE stripped
    IN  [number |-> i, text |-> text, link |-> msg.link,
         length |-> 8 + Digits(i) + text
                      + (IF msg.link > 0 THEN 9 + msg.link ELSE 0)]

RECURSIVE FormatFrom(_, _, _)
\* The loop of _format_posts_for_prompt from position i on: a message whose
\* stripped text is empty is skipped (continue); the loop ends (break) at the
\* first block that would take total_chars over MAX_INPUT_CHARS.
FormatFrom(limited_messages, i, total_chars) ==
    IF i > Len(limited_messages) THEN <<>>
    ELSE IF limited_messages[i].text.len = 0
         THEN FormatFrom(limited_messages, i + 1, total_chars)
         ELSE LET post_block == PostBlock(i, limited_messages[i]) IN
              IF total_chars + post_block.length > MAX_INPUT_CHARS THEN <<>>
              ELSE <<post_block>>
                     \o FormatFrom(limited_messages, i + 1,
                                   total_chars + post_block.length)

RECURSIVE JoinedLength(_)
\* len("\n\n".join(formatted_posts))
JoinedLength(formatted_posts) ==
    IF formatted_posts = <<>> THEN 0
    ELSE IF Len(formatted_posts) = 1 THEN formatted_posts[1].length
    ELSE formatted_posts[1].length + 2 + JoinedLength(Tail(formatted_posts))

\* _format_posts_for_prompt: the blocks of the text it returns, and the
\* length of that text.
format_posts_for_prompt(messages) ==
    LET limited_messages == SubSeq(messages, 1, Min({Len(messages), MAX_POSTS}))
        formatted_posts  == FormatFrom(limited_messages, 1, 0)
    IN  [posts |-> formatted_posts, length |-> JoinedLength(formatted_posts)]

\* _build_user_prompt: the fixed "no messages" text when nothing was
\* formatted, else the template around the posts text.
build_user_prompt(messages) ==
    LET posts_text == format_posts_for_prompt(messages) IN
    [template |-> posts_text.posts # <<>>, posts_text |-> posts_text]

\* Texts that are looked into are sequences of characters; the token "t.me/"
\* stands for an occurrence of that substring.
Whitespace == {" ", "\n"}

RECURSIVE LStrip(_)
LStrip(s) == IF s # <<>> /\ Head(s) \in Whitespace THEN LStrip(Tail(s)) ELSE s

RECURSIVE RStrip(_)
RStrip(s) ==
    IF s # <<>> /\ s[Len(s)] \in Whitespace THEN RStrip(SubSeq(s, 1, Len(s) - 1)) ELSE s

\* str.strip()
Strip(s) == RStrip(LStrip(s))

RECURSIVE Split(_)
\* str.split('\n')
Split(s) ==
    IF \A k \in DOMAIN s : s[k] # "\n" THEN <<s>>
    ELSE LET k == Min({j \in DOMAIN s : s[j] = "\n"}) IN
         <<SubSeq(s, 1, k - 1)>> \o Split(SubSeq(s, k + 1, Len(s)))

RECURSIVE Join(_)
\* '\n'.join(lines)
Join(lines) ==
    IF lines = <<>> THEN <<>>
    ELSE IF Len(lines) = 1 THEN lines[1]
    ELSE lines[1] \o <<"\n">> \o Join(Tail(lines))

\* str.endswith(suffix)
EndsWith(s, suffix) ==
    /\ Len(s) >= Len(suffix)
    /\ SubSeq(s, Len(s) - Len(suffix) + 1, Len(s)) = suffix

\* The note appended to a shortened summary.
ShortenedNotice == <<"\n", "\n", "_(shortened)_">>

FixAlwaysDrops(text) ==
    IF text = <<>> THEN text
    ELSE LET lines  == Split(Strip(text))
             result == Join(SubSeq(lines, 1, Len(lines) - 1))
         IN  IF result # Strip(text) THEN result \o ShortenedNotice ELSE result

\* _fix_truncated_output
fix_truncated_output(text) ==
    IF text = <<>> THEN text
    ELSE LET lines     == Split(Strip(text))
             last_line == Strip(lines[Len(lines)])
             drop      == /\ last_line # <<>>
                          /\ ~(\/ \E suffix \in {<<".", ".", ".">>, <<".">>, <<"!">>, <<"?">>} :
                                     EndsWith(last_line, suffix)
                               \/ \E k \in DOMAIN last_line : last_line[k] = "t.me/")
             result    == Join(IF drop THEN SubSeq(lines, 1, Len(lines) - 1) ELSE lines)
         IN  IF result # Strip(text) THEN result \o ShortenedNotice ELSE result

\* summarize_messages, lines 219-227: the text of the result for the content
\* and the finish_reason of the first choice.
SummaryText(content, finish_reason) ==
    LET summary_text == Strip(content) IN
    IF finish_reason = "length" THEN fix_truncated_output(summary_text)
    ELSE summary_text

\* No summarize_messages call is in flight.
IdleSumm ==
    [pc |-> "idle", caller |-> None, messages |-> <<>>, custom_instructions |-> None,
     payload |-> None, attempt |-> 0, exc |-> None, data |-> None, result |-> None]

\* SummaryResult(text="Nothing new.", prompt_tokens=0, completion_tokens=0, total_tokens=0)
NothingNew ==
    [text |-> <<"Nothing new.">>, prompt_tokens |-> Some(0),
     completion_tokens |-> Some(0), total_tokens |-> Some(0)]

\* The default system prompt, as one token.
SYSTEM_PROMPT == <<"SYSTEM_PROMPT">>

\* system_content: the stripped custom instructions when they are given and
\* not blank, else SYSTEM_PROMPT.
SystemContent(custom_instructions) ==
    IF custom_instructions # None /\ Strip(Val(custom_instructions)) # <<>>
    THEN Strip(Val(custom_instructions))
    ELSE SYSTEM_PROMPT

\* The request body.
Payload(messages, custom_instructions) ==
    [system |-> SystemContent(custom_instructions),
     user |-> build_user_prompt(messages), max_tokens |-> 1500]

SummarizeWithoutShortCircuit(caller, messages, custom_instructions) ==
    summ' = [IdleSumm EXCEPT !.pc = "call",
                             !.caller = caller,
                             !.messages = messages,
                             !.custom_instructions = custom_instructions,
                             !.payload = Some(Payload(messages, custom_instructions))]

\* summarize_messages up to its await of _call_deepseek_api: an empty list
\* returns the fixed result at once, else the payload is built.
summarize_messages(caller, messages, custom_instructions) ==
    summ' = IF messages = <<>>
            THEN [IdleSumm EXCEPT !.pc = "returned",
                                  !.caller = caller,
                                  !.custom_instructions = custom_instructions,
                                  !.result = Some(NothingNew)]
            ELSE [IdleSumm EXCEPT !.pc = "call",
                                  !.caller = caller,
                                  !.messages = messages,
                                  !.custom_instructions = custom_instructions,
                                  !.payload = Some(Payload(messages, custom_instructions))]

\* What one POST to the backend can end in: a response body (with no choice
\* or one, with or without usage), an HTTP status error, a timeout, a
\* connection error, or an exception of another type.
Response(kind, status, choices, usage) ==
    [kind |-> kind, status |-> status, choices |-> choices, usage |-> usage]

Choice(content, finish_reason) == [content |-> content, finish_reason |-> finish_reason]

Usage == [prompt_tokens |-> 7, completion_tokens |-> 3, total_tokens |-> 10]

ContentInputs == {<<"a", ".">>, <<" ", "a", ".", "\n", "b">>}

ApiResponses ==
    {Response("ok", 200, <<>>, Some(Usage))}
    \cup {Response("ok", 200, <<Choice(c, f)>>, u) :
            c \in ContentInputs, f \in {"stop", "length"}, u \in {None, Some(Usage)}}
    \cup {Response("status", s, <<>>, None) : s \in {400, 429, 500}}
    \cup {Response(k, 0, <<>>, None) : k \in {"timeout", "connect", "other"}}

\* raise RuntimeError("DeepSeek returned no choices")
NoChoices == Response("no_choices", 0, <<>>, None)

\* str(exc)
ExcText(exc) ==
    IF exc.kind = "status" THEN "HTTP status error"
    ELSE IF exc.kind = "timeout" THEN "timeout"
    ELSE IF exc.kind = "connect" THEN "connection failed"
    ELSE IF exc.kind = "no_choices" THEN "DeepSeek returned no choices"
    ELSE "error"

RetryableFailFast(exc) ==
    \/ exc.kind \in {"timeout", "connect"}
    \/ exc.kind = "status" /\ ~(400 <= exc.status /\ exc.status < 500 /\ exc.status # 429)

\* retry_if_exception_type((HTTPStatusError, TimeoutException, ConnectError)).
\* _call_deepseek_api re-raises an HTTPStatusError in both branches of its
\* status test, so every status reaches the retry decision alike.
Retryable(exc) == exc.kind \in {"status", "timeout", "connect"}

StopOneLater(attempt_number) == attempt_number >= StopAfterAttempt + 1

\* stop_after_attempt(3)
ShouldStop(attempt_number) == attempt_number >= StopAfterAttempt

\* One attempt of _call_deepseek_api under the retry decorator: a response
\* body is returned; an exception of a retried type leads to another attempt
\* unless this was the last one; otherwise the exception leaves the call
\* (reraise=True).
ApiAttempt ==
    /\ summ.pc = "call"
    /\ \E resp \in ApiResponses :
          summ' = IF resp.kind = "ok"
                  THEN [summ EXCEPT !.attempt = @ + 1, !.pc = "parse",
                                    !.data = Some(resp)]
                  ELSE IF Retryable(resp) /\ ~ShouldStop(summ.attempt + 1)
                  THEN [summ EXCEPT !.attempt = @ + 1, !.exc = Some(resp)]
                  ELSE [summ EXCEPT !.attempt = @ + 1, !.pc = "raised",
                                    !.exc = Some(resp)]
    /\ UNCHANGED <<deleting, response, templates, run_logs, run_log_seq, now, posts, schedPc, schedIds, execs, ownerOps>>

\* usage.get(key)
UsageGet(usage, key) == IF usage = None THEN None ELSE Some(Val(usage)[key])

\* summarize_messages after the await: no choices raises; else the result is
\* built from the first choice and the usage.
ParseResponse ==
    /\ summ.pc = "parse"
    /\ LET data == Val(summ.data) IN
       summ' = IF data.choices = <<>>
               THEN [summ EXCEPT !.pc = "raised", !.exc = Some(NoChoices)]
               ELSE [summ EXCEPT !.pc = "returned",
                        !.result = Some(
                            [text |-> SummaryText(data.choices[1].content,
                                                  data.choices[1].finish_reason),
                             prompt_tokens |-> UsageGet(data.usage, "prompt_tokens"),
                             completion_tokens |-> UsageGet(data.usage, "completion_tokens"),
                             total_tokens |-> UsageGet(data.usage, "total_tokens")])]
    /\ UNCHANGED <<deleting, response, templates, run_logs, run_log_seq, now, posts, schedPc, schedIds, execs, ownerOps>>

\* Message lists and custom instructions of the calls made in SpecSumm.
SummInputs ==
    {<<>>, <<Message(1, 0, 0)>>, <<PostMessage>>,
     <<PostMessage, Message(0, 0, 0), Message(0, 5, 0)>>}

CustomInputs == {None, Some(<<>>), Some(<<" ">>), Some(<<" ", "x", " ">>)}

\* A call of summarize_messages by any caller other than process_template.
CallSummarizer ==
    /\ summ.pc = "idle"
    /\ \E messages \in SummInputs, custom_instructions \in CustomInputs :
          summarize_messages(None, messages, custom_instructions)
    /\ UNCHANGED <<deleting, response, templates, run_logs, run_log_seq, now, posts, schedPc, schedIds, execs, ownerOps>>

\* process_template calls summarize_messages(messages,
\* custom_instructions=custom_prompt); custom_prompt is whatever the owner stored.
SummarizeBegin(e) ==
    LET x == execs[e] IN
    /\ x.pc = "summarize"
    /\ summ.pc = "idle"
    /\ \E custom_prompt \in CustomInputs :
          summarize_messages(Some(e), [i \in DOMAIN x.messages |-> PostMessage],
                             custom_prompt)
    /\ execs' = [execs EXCEPT ![e].pc = "summarizing"]
    /\ UNCHANGED <<deleting, response, templates, run_logs, run_log_seq, now, posts, schedPc, schedIds, ownerOps>>

\* The call made by process_template is over: process_template goes on with
\* the result or with the exception.
SummarizeEnd(e) ==
    LET x == execs[e] IN
    /\ x.pc = "summarizing"
    /\ summ.caller = Some(e)
    /\ summ.pc \in {"returned", "raised"}
    /\ execs' = [execs EXCEPT ![e] =
                    AfterSummarize(x, IF summ.pc = "raised"
                                      THEN [raised |-> TRUE,
                                            error |-> ExcText(Val(summ.exc))]
                                      ELSE [raised |-> FALSE, error |-> ""])]
    /\ summ' = IdleSumm
    /\ UNCHANGED <<deleting, response, templates, run_logs, run_log_seq, now, posts, schedPc, schedIds, ownerOps>>


\* ------------------------------------------------------------- specification
\* A template_sources row as create_template makes it.
Source(id, identifier) == [id |-> id, identifier |-> identifier, chat_id |-> None]

\* Rows for a list of (identifier, chat_id) pairs, primary keys above base.
SourceRows(srcs, base) ==
    [i \in DOMAIN srcs |-> [id |-> base + i, identifier |-> srcs[i].identifier,
                            chat_id |-> srcs[i].chat_id]]

\* The update requests the owner sends in Spec.
UpdateInputs ==
    {[frequency_hours |-> 12, is_active |-> TRUE, sources |-> <<"@b", "@a">>],
     [frequency_hours |-> 6, is_active |-> FALSE, sources |-> <<"@b">>]}

NewTemplate(frequency_hours, is_active, last_run_at, sources) ==
    [frequency_hours |-> frequency_hours, is_active |-> is_active,
     in_progress |-> FALSE, last_run_at |-> last_run_at, sources |-> sources]

InitSources == [id \in Jobs |-> IF id = 1 THEN <<Source(1, "@a"), Source(2, "@b")>>
                                ELSE <<Source(id + 1, "@a")>>]

Init ==
    /\ templates = [id \in Jobs |->
                        NewTemplate(6, TRUE, IF id = 1 THEN None ELSE Some(0),
                                    InitSources[id])]
    /\ run_logs = <<>>
    /\ run_log_seq = 0
    /\ now = 0
    /\ posts = [ch \in Channels |-> {0}]
    /\ schedPc = "sleep"
    /\ schedIds = <<>>
    /\ execs = <<>>
    /\ ownerOps = 0
    /\ response = None
    /\ deleting = None
    /\ summ = IdleSumm

Next ==
    \/ TickRead
    \/ TickCommit
    \/ TickDispatch
    \/ TickFailed
    \/ \E id \in Jobs, hb \in HoursBackInputs : RunNowBegin(id, hb)
    \/ \E e \in DOMAIN execs : RunNowCommit(e)
    \/ \E e \in DOMAIN execs : Load(e)
    \/ \E e \in DOMAIN execs : Collect(e)
    \/ \E e \in DOMAIN execs : Summarize(e)
    \/ \E e \in DOMAIN execs : Deliver(e)
    \/ \E e \in DOMAIN execs : Finalize(e)
    \/ \E id \in Jobs : Toggle(id)
    \/ \E id \in Jobs, u \in UpdateInputs : Update(id, u)
    \/ \E id \in Jobs : Delete(id)
    \/ Tick

Spec == Init /\ [][Next]_vars


\* ------------------------------------------- is_template_due on drawn inputs
DueMaxLast == 1       \* last_run_at drawn from 0..DueMaxLast (or absent)
DueMaxNow == 26       \* now drawn from 0..DueMaxNow

\* Templates with any cadence and last_run_at, and any value of the clock.
InitDue ==
    /\ \E f \in [Jobs -> AllowedFrequencies],
          l \in [Jobs -> {None} \cup {Some(t) : t \in 0..DueMaxLast}] :
            templates = [id \in Jobs |->
                            NewTemplate(f[id], TRUE, l[id], <<Source(id, "@a")>>)]
    /\ now \in 0..DueMaxNow
    /\ run_logs = <<>>
    /\ run_log_seq = 0
    /\ posts = [ch \in Channels |-> {0}]
    /\ schedPc = "sleep"
    /\ schedIds = <<>>
    /\ execs = <<>>
    /\ ownerOps = 0
    /\ response = None
    /\ deleting = None
    /\ summ = IdleSumm

\* One scheduler tick up to the fixing of the due set.
SpecDue == InitDue /\ [][TickRead]_vars

\* -------------------------------------------- the scheduling loop on its own
\* Templates that are active or not, never run or run at hour 0.
InitLoop ==
    /\ \E a \in [Jobs -> BOOLEAN], l \in [Jobs -> {None, Some(0)}] :
            templates = [id \in Jobs |->
                            NewTemplate(6, a[id], l[id], <<Source(id, "@a")>>)]
    /\ run_logs = <<>>
    /\ run_log_seq = 0
    /\ now = 0
    /\ posts = [ch \in Channels |-> {0}]
    /\ schedPc = "sleep"
    /\ schedIds = <<>>
    /\ execs = <<>>
    /\ ownerOps = 0
    /\ response = None
    /\ deleting = None
    /\ summ = IdleSumm

\* The loop of main(), the owner and the clock; the tasks the loop creates
\* are left waiting.
NextLoop ==
    \/ TickRead
    \/ TickCommit
    \/ TickDispatch
    \/ TickFailed
    \/ \E id \in Jobs : Toggle(id)
    \/ \E id \in Jobs : Delete(id)
    \/ Tick

\* main() is the coroutine asyncio.run drives: each of its steps is taken
\* once it can be, and asyncio.sleep returns.
SpecLoop ==
    /\ InitLoop
    /\ [][NextLoop]_vars
    /\ WF_vars(TickRead) /\ WF_vars(TickCommit)
    /\ WF_vars(TickDispatch) /\ WF_vars(TickFailed)

\* ------------------------------- _collect_messages_from_data on drawn inputs
AggMaxSources == 3    \* source lists of up to AggMaxSources sources

SeqsUpTo(S, n) == UNION {[1..k -> S] : k \in 0..n}

\* A source with or without its cached chat id.
SourceInputs ==
    {[identifier |-> ch, chat_id |-> None] : ch \in Channels}
        \cup {[identifier |-> ch, chat_id |-> Some(ChatId[ch])] : ch \in Channels}

\* Template 1 with any source list, loaded by an execution that is about to
\* collect, with or without a watermark; "@a" holds two posts, "@b" one.
InitAgg ==
    /\ now = 1
    /\ posts = [ch \in Channels |-> IF ch = "@a" THEN {0, 1} ELSE {1}]
    /\ \E srcs \in SeqsUpTo(SourceInputs, AggMaxSources), from_dt \in {None, Some(0)} :
          /\ templates = [id \in Jobs |->
                [NewTemplate(6, TRUE, from_dt, IF id = 1 THEN SourceRows(srcs, NumJobs)
                                               ELSE <<Source(id - 1, "@a")>>)
                    EXCEPT !.in_progress = (id = 1)]]
          /\ execs = <<[NewExec(1, "sched", "collect", None) EXCEPT
                            !.held = TRUE,
                            !.sources_data = srcs,
                            !.from_dt = from_dt,
                            !.run_log_id = Some(1),
                            !.phases = <<"load">>]>>
    /\ run_logs = (1 :> NewRunLog(1))
    /\ run_log_seq = 1
    /\ schedPc = "sleep"
    /\ schedIds = <<>>
    /\ ownerOps = 0
    /\ response = None
    /\ deleting = None
    /\ summ = IdleSumm

\* The collection phase alone.
SpecAgg == InitAgg /\ [][\E e \in DOMAIN execs : Collect(e)]_vars

\* One execution from its collection phase to its return.
NextRun ==
    \/ \E e \in DOMAIN execs : Collect(e)
    \/ \E e \in DOMAIN execs : Summarize(e)
    \/ \E e \in DOMAIN execs : Deliver(e)
    \/ \E e \in DOMAIN execs : Finalize(e)

\* A whole run of template 1 over drawn source lists.
SpecRun == InitAgg /\ [][NextRun]_vars

\* ------------------------------------------- update_template on drawn inputs
EditMaxSources == 2   \* template 1 starts with up to EditMaxSources source rows
EditMaxLen == 2       \* an update request names up to EditMaxLen sources

\* TemplateUpdate payloads that pass validation.
EditInputs ==
    [frequency_hours : AllowedFrequencies, is_active : BOOLEAN,
     sources : SeqsUpTo(Channels, EditMaxLen)]

\* Template 1 with any source rows create_template and update_template can
\* leave (one row per entry of the request, repeated entries included), with
\* or without cached chat ids; in progress or not.
InitEdit ==
    /\ \E srcs \in SeqsUpTo(SourceInputs, EditMaxSources), busy \in BOOLEAN :
          templates = [id \in Jobs |->
                [NewTemplate(6, TRUE, Some(0), IF id = 1 THEN SourceRows(srcs, NumJobs)
                                               ELSE <<Source(id - 1, "@a")>>)
                    EXCEPT !.in_progress = (id = 1 /\ busy)]]
    /\ run_logs = <<>>
    /\ run_log_seq = 0
    /\ now = 0
    /\ posts = [ch \in Channels |-> {0}]
    /\ schedPc = "sleep"
    /\ schedIds = <<>>
    /\ execs = <<>>
    /\ ownerOps = 0
    /\ response = None
    /\ deleting = None
    /\ summ = IdleSumm

\* One update request for template 1.
SpecEdit == InitEdit /\ [][\E u \in EditInputs : Update(1, u)]_vars

\* The summarizer client.  One execution of template 1 has collected two
\* messages and is about to call summarize_messages; other callers call it
\* with the lists of SummInputs.
SummBase ==
    /\ now = 1
    /\ posts = [ch \in Channels |-> IF ch = "@a" THEN {0, 1} ELSE {1}]
    /\ templates = [id \in Jobs |->
            [NewTemplate(6, TRUE, None, <<Source(id, "@a")>>)
                EXCEPT !.in_progress = (id = 1)]]
    /\ execs = <<[NewExec(1, "sched", "summarize", None) EXCEPT
                      !.held = TRUE,
                      !.sources_data = <<[identifier |-> "@a", chat_id |-> None]>>,
                      !.run_log_id = Some(1),
                      !.messages = fetch_messages("@a", None),
                      !.phases = <<"load", "collect">>]>>
    /\ run_logs = (1 :> NewRunLog(1))
    /\ run_log_seq = 1
    /\ schedPc = "sleep"
    /\ schedIds = <<>>
    /\ ownerOps = 0
    /\ response = None
    /\ deleting = None

InitSumm == SummBase /\ summ = IdleSumm

NextSumm ==
    \/ CallSummarizer
    \/ \E e \in DOMAIN execs : SummarizeBegin(e)
    \/ ApiAttempt
    \/ ParseResponse
    \/ \E e \in DOMAIN execs : SummarizeEnd(e)
    \/ \E e \in DOMAIN execs : Deliver(e)
    \/ \E e \in DOMAIN execs : Finalize(e)

SpecSumm == InitSumm /\ [][NextSumm]_vars

\* _format_posts_for_prompt on its own.  The lists: every list of up to
\* FormatMaxLen messages that are short, blank, empty or linked; a run of
\* equal short messages, up to more than MAX_POSTS of them; and a run of long
\* messages followed by one whose length fills the character budget.
FormatMaxLen == 3
FormatFill == 810..820
FormatRuns == 0..(MAX_POSTS + 2)

FormatInputs ==
    SeqsUpTo({Message(0, 5, 0), Message(2, 0, 0), Message(0, 0, 0), Message(1, 5, 20)},
             FormatMaxLen)
    \cup {[i \in 1..n |-> Message(0, 5, 0)] : n \in FormatRuns}
    \cup {[i \in 1..(n + 1) |-> IF i <= n THEN Message(0, 2 * MaxPostChars, 0)
                                  ELSE Message(0, fill, 0)] :
            n \in FormatRuns, fill \in FormatFill}

FormatCall ==
    /\ summ.pc = "idle"
    /\ \E messages \in FormatInputs : summarize_messages(None, messages, None)
    /\ UNCHANGED <<deleting, response, templates, run_logs, run_log_seq, now, posts, schedPc, schedIds, execs, ownerOps>>

SpecFormat == InitSumm /\ [][FormatCall]_vars

\* The handling of a response body on its own: every content of up to
\* FixMaxLen characters, with each finish_reason.
FixMaxLen == 4
FixChars == {"a", ".", " ", "\n", "t.me/"}

InitFix ==
    /\ SummBase
    /\ \E content \in SeqsUpTo(FixChars, FixMaxLen), finish_reason \in {"stop", "length"} :
          summ = [IdleSumm EXCEPT
                    !.pc = "parse",
                    !.messages = <<PostMessage>>,
                    !.payload = Some(Payload(<<PostMessage>>, None)),
                    !.attempt = 1,
                    !.data = Some(Response("ok", 200, <<Choice(content, finish_reason)>>,
                                           Some(Usage)))]

SpecFix == InitFix /\ [][ParseResponse]_vars

\* The pipeline with a finalize phase that can fail, without owner requests.
NextStuck ==
    \/ TickRead
    \/ TickCommit
    \/ TickDispatch
    \/ \E id \in Jobs, hb \in HoursBackInputs : RunNowBegin(id, hb)
    \/ \E e \in DOMAIN execs : RunNowCommit(e)
    \/ \E e \in DOMAIN execs : Load(e)
    \/ \E e \in DOMAIN execs : Collect(e)
    \/ \E e \in DOMAIN execs : Summarize(e)
    \/ \E e \in DOMAIN execs : Deliver(e)
    \/ \E e \in DOMAIN execs : Finalize(e)
    \/ \E e \in DOMAIN execs : FinalizeFails(e)
    \/ Tick

SpecStuck == Init /\ [][NextStuck]_vars

\* ======================================================================
\* Properties
\* ======================================================================
\* process_template is running for the template of execution e.
Active(e) ==
    execs[e].pc \in {"load", "collect", "summarize", "summarizing", "deliver", "finalize"}

ActiveFor(id) == {e \in DOMAIN execs : execs[e].template_id = id /\ Active(e)}

\* C1: across every interleaving of scheduler ticks and run-now requests, at
\* most one process_template execution is active for a given template at
\* any time.
C1_AtMostOneActive ==
    \A id \in Jobs : Cardinality(ActiveFor(id)) <= 1

\* C2: once a scheduler tick has set a template's in_progress flag, the flag
\* is true in every state until the execution dispatched for that template
\* has run its finalize phase.
C2_FlagTrueUntilFinalize ==
    \A e \in DOMAIN execs :
        (execs[e].origin = "sched" /\ Active(e) /\ Exists(execs[e].template_id))
            => templates[execs[e].template_id].in_progress

\* C3: a template that one scheduler tick marked in-progress and dispatched
\* is never in the due set of a later tick while its flag has stayed true,
\* and a tick creates its tasks only after its flags are committed.
C3_NoRedispatchWhileHeld ==
    /\ schedPc \in {"commit", "dispatch"} =>
          \A i \in DOMAIN schedIds : \A e \in DOMAIN execs :
              execs[e].template_id = schedIds[i] => ~execs[e].held
    /\ \A e \in DOMAIN execs :
          execs[e].held => /\ Exists(execs[e].template_id)
                           /\ templates[execs[e].template_id].in_progress

\* A second tick has fixed a due set while an execution dispatched by an
\* earlier tick still holds the flag of another template.
C3_Witness ==
    /\ schedPc = "commit"
    /\ \E e \in DOMAIN execs : execs[e].held /\ Active(e)


\* The verdict of is_template_due on template id, as the tick that has just
\* fixed its due set shows it (under SpecDue nothing else changes a row).
Verdict(id) == id \in Range(schedIds)

\* C4: is_template_due is true for every now when last_run_at is absent,
\* false for every now strictly before last_run_at + frequency_hours, and
\* true at and after that instant.
C4_IsDueBoundary ==
    schedPc = "commit" =>
        \A id \in Jobs :
            LET t == templates[id] IN
            /\ t.last_run_at = None => Verdict(id)
            /\ (t.last_run_at # None /\ now < Val(t.last_run_at) + t.frequency_hours)
                  => ~Verdict(id)
            /\ (t.last_run_at # None /\ now >= Val(t.last_run_at) + t.frequency_hours)
                  => Verdict(id)

\* A tick that finds one template exactly at last_run_at + frequency_hours
\* (due) and another one hour before its instant (not due).
C4_Witness ==
    /\ schedPc = "commit"
    /\ \E id \in Jobs : /\ templates[id].last_run_at # None
                        /\ now = Val(templates[id].last_run_at) + templates[id].frequency_hours
                        /\ Verdict(id)
    /\ \E id \in Jobs : /\ templates[id].last_run_at # None
                        /\ now + 1 = Val(templates[id].last_run_at) + templates[id].frequency_hours
                        /\ ~Verdict(id)


\* Execution e is between its load phase and the end of its finalize phase.
MidRun(e) == execs[e].pc \in {"collect", "summarize", "deliver", "finalize"}

\* C5: in every execution whose template exists, the run_log row with status
\* "running" is committed before the first fetch, summarizer or delivery
\* call, so an execution that stops anywhere after the load phase leaves a
\* visible "running" row.
C5_RunningRecordBeforeWork ==
    \A e \in DOMAIN execs :
        LET x == execs[e] IN
        /\ (x.attempts # <<>> \/ x.nSumm > 0 \/ x.nSend > 0)
              => (x.run_log_id # None /\ x.phases[1] = "load")
        /\ (MidRun(e) /\ Exists(x.template_id))
              => /\ x.run_log_id # None
                 /\ Val(x.run_log_id) \in DOMAIN run_logs
                 /\ run_logs[Val(x.run_log_id)].status = "running"
                 /\ run_logs[Val(x.run_log_id)].template_id = x.template_id

\* An execution that has fetched and is about to call the summarizer, with
\* its "running" row in the table.
C5_Witness ==
    \E e \in DOMAIN execs :
        /\ execs[e].pc = "summarize"
        /\ execs[e].attempts # <<>>
        /\ Exists(execs[e].template_id)
        /\ run_logs[Val(execs[e].run_log_id)].status = "running"

TerminalStatus == {"success", "error"}

\* Execution e ends its finalize phase in this step.
Finalizes(e) == execs[e].pc = "finalize" /\ execs'[e].pc = "done"

C6_States ==
    /\ \A r \in DOMAIN run_logs : run_logs[r].status \in {"running"} \cup TerminalStatus
    /\ \A e1, e2 \in DOMAIN execs :
          (e1 # e2 /\ execs[e1].run_log_id # None)
              => execs[e1].run_log_id # execs[e2].run_log_id
    /\ \A e \in DOMAIN execs :
          (execs[e].pc = "done" /\ execs[e].run_log_id # None
              /\ Val(execs[e].run_log_id) \in DOMAIN run_logs)
              => run_logs[Val(execs[e].run_log_id)].status \in TerminalStatus

C6_Steps ==
    /\ \A r \in DOMAIN run_logs' :
          r \notin DOMAIN run_logs => run_logs'[r].status = "running"
    /\ \A r \in DOMAIN run_logs \cap DOMAIN run_logs' :
          run_logs'[r].status # run_logs[r].status
              => /\ run_logs[r].status = "running"
                 /\ run_logs'[r].status \in TerminalStatus
                 /\ \E e \in DOMAIN execs :
                        Finalizes(e) /\ execs[e].run_log_id = Some(r)
    /\ \A e \in DOMAIN execs :
          (Finalizes(e) /\ execs[e].run_log_id # None
              /\ Val(execs[e].run_log_id) \in DOMAIN run_logs)
              => /\ run_logs[Val(execs[e].run_log_id)].status = "running"
                 /\ run_logs'[Val(execs[e].run_log_id)].status \in TerminalStatus

Failed(e) == execs[e].error_message # None

HasRow(e) ==
    execs[e].run_log_id # None /\ Val(execs[e].run_log_id) \in DOMAIN run_logs'

C7_States ==
    \A e \in DOMAIN execs :
        Failed(e) => /\ execs[e].pc \in {"finalize", "done"}
                     /\ ~execs[e].success
                     /\ execs[e].pc = "done" =>
                            /\ ~Val(execs[e].result).raised
                            /\ ~Val(execs[e].result).success
                            /\ Val(execs[e].result).error = execs[e].error_message

C7_Steps ==
    \A e \in DOMAIN execs :
        (Finalizes(e) /\ Failed(e)) =>
            /\ HasRow(e) =>
                  /\ run_logs'[Val(execs[e].run_log_id)].status = "error"
                  /\ run_logs'[Val(execs[e].run_log_id)].finished_at = Some(now)
            /\ execs[e].template_id \in DOMAIN templates' =>
                  ~templates'[execs[e].template_id].in_progress

CollectedNothing(e) ==
    /\ Len(execs[e].phases) >= 2
    /\ execs[e].phases[2] = "collect"
    /\ execs[e].messages = <<>>
    /\ ~Failed(e)

C8_States ==
    \A e \in DOMAIN execs :
        CollectedNothing(e) =>
            /\ execs[e].nSumm = 0
            /\ execs[e].nSend = 0
            /\ execs[e].pc \in {"finalize", "done"}
            /\ execs[e].pc = "done" =>
                  execs[e].result = ProcessResult(TRUE, 0, None)

C8_Steps ==
    \A e \in DOMAIN execs :
        (Finalizes(e) /\ CollectedNothing(e)) =>
            /\ HasRow(e) =>
                  /\ run_logs'[Val(execs[e].run_log_id)].status = "success"
                  /\ run_logs'[Val(execs[e].run_log_id)].messages_count = 0
            /\ execs[e].template_id \in DOMAIN templates' =>
                  /\ ~templates'[execs[e].template_id].in_progress
                  /\ templates'[execs[e].template_id].last_run_at = Some(now)

PhaseOrder == <<"load", "collect", "summarize", "deliver", "finalize">>

\* s is increasing: the phases of s follow the order of PhaseOrder.
InPhaseOrder(s) ==
    \A i, j \in DOMAIN s :
        i < j => \E a, b \in DOMAIN PhaseOrder :
                    a < b /\ PhaseOrder[a] = s[i] /\ PhaseOrder[b] = s[j]

\* C10: within one execution the phases run in the order load, collect,
\* summarize, deliver, finalize; the summarizer is called at most once and
\* only after collection returned a non-empty list; the delivery connector
\* is called at most once and only after the summarizer call returned
\* successfully; the finalize phase runs after all of them.
C10_PhaseOrder ==
    \A e \in DOMAIN execs :
        LET x == execs[e] IN
        /\ InPhaseOrder(x.phases)
        /\ x.phases # <<>> => x.phases[1] = "load"
        /\ x.nSumm <= 1 /\ x.nSend <= 1
        /\ x.nSumm = 1 => /\ Len(x.phases) >= 3
                          /\ x.phases[2] = "collect" /\ x.phases[3] = "summarize"
                          /\ x.messages # <<>>
        /\ x.nSend = 1 => /\ Len(x.phases) >= 4
                          /\ x.phases[3] = "summarize" /\ x.phases[4] = "deliver"
                          /\ x.messages_count = Len(x.messages)
                          /\ x.error_message \in {None, Some("send failed")}
        /\ (\E i \in DOMAIN x.phases : x.phases[i] = "finalize")
              => (x.pc = "done" /\ x.phases[Len(x.phases)] = "finalize")

\* An execution has run all five phases.
C10_Witness ==
    \E e \in DOMAIN execs : execs[e].phases = PhaseOrder


\* Some fetch attempt for source i of execution e succeeded.
SourceSucceeded(e, i) ==
    \E a \in DOMAIN execs[e].attempts :
        execs[e].attempts[a].src = i /\ execs[e].attempts[a].ok

RECURSIVE MessagesOfSucceeded(_, _)
\* The messages of the sources i, i+1, ... of e whose fetch succeeded, in the
\* order of the sources, each source's messages as its channel holds them.
MessagesOfSucceeded(e, i) ==
    IF i > Len(execs[e].sources_data) THEN <<>>
    ELSE (IF SourceSucceeded(e, i)
          THEN fetch_messages(execs[e].sources_data[i].identifier, execs[e].from_dt)
          ELSE <<>>) \o MessagesOfSucceeded(e, i + 1)

Collected(e) == Len(execs[e].phases) >= 2 /\ execs[e].phases[2] = "collect"

\* C9: the aggregator never raises for a failing source: over N sources its
\* result is exactly the concatenation of the messages of every source whose
\* fetch succeeded, duplicates across sources kept.
C9_AggregatorIsolatesFailures ==
    \A e \in DOMAIN execs :
        Collected(e) =>
            /\ execs[e].error_message # Some("fetch failed")
            /\ execs[e].messages = MessagesOfSucceeded(e, 1)

\* Three sources, two of them the same channel; exactly one source failed on
\* every attempt, and the result holds the messages of the two others.
C9_Witness ==
    \E e \in DOMAIN execs :
        /\ Collected(e)
        /\ Len(execs[e].sources_data) = 3
        /\ Cardinality({i \in 1..3 : SourceSucceeded(e, i)}) = 2
        /\ \E i, j \in 1..3 :
              /\ i # j
              /\ SourceSucceeded(e, i) /\ SourceSucceeded(e, j)
              /\ execs[e].sources_data[i].identifier = execs[e].sources_data[j].identifier
        /\ Len(execs[e].messages) = 4

\* The rows of table templates that a step neither creates nor deletes.
Surviving == DOMAIN templates \cap DOMAIN templates'

C11_Steps ==
    /\ \A e \in DOMAIN execs :
          (Finalizes(e) /\ execs[e].template_id \in Surviving) =>
              LET id == execs[e].template_id IN
              IF Val(execs'[e].result).success
              THEN templates'[id].last_run_at = Some(now)
              ELSE templates'[id].last_run_at = templates[id].last_run_at
    /\ \A id \in Surviving :
          templates'[id].last_run_at # templates[id].last_run_at =>
              \E e \in DOMAIN execs :
                  /\ Finalizes(e)
                  /\ execs[e].template_id = id
                  /\ Val(execs'[e].result).success

\* C11: the finalize phase sets last_run_at to now when the run succeeded and
\* leaves it as it was when the run ended in error, and no other step of the
\* pipeline writes last_run_at, so a run that ends in error leaves the
\* watermark of the next run where it was.
C11_WatermarkAdvancesOnSuccessOnly == [][C11_Steps]_vars

\* A run of template 1 (never run before) has ended in error after the clock
\* moved, and the template still has no last_run_at.
C11_Witness ==
    \E e \in DOMAIN execs :
        /\ execs[e].pc = "done"
        /\ execs[e].template_id = 1
        /\ execs[e].phases # <<>>
        /\ ~Val(execs[e].result).success
        /\ now > 0
        /\ Exists(1)
        /\ templates[1].last_run_at = None

\* process_template returned "Template not found" in execution e.
NotFound(e) == execs[e].result = ProcessResult(FALSE, 0, Some("Template not found"))

\* Execution e runs its load phase in this step and finds no template row.
LoadsMissing(e) ==
    /\ execs[e].pc = "load"
    /\ execs'[e].pc # "load"
    /\ ~Exists(execs[e].template_id)

C12_States ==
    \A e \in DOMAIN execs :
        NotFound(e) => /\ execs[e].pc = "done"
                       /\ execs[e].run_log_id = None
                       /\ execs[e].attempts = <<>>
                       /\ execs[e].nSumm = 0 /\ execs[e].nSend = 0
                       /\ execs[e].phases = <<>>

C12_Steps ==
    \A e \in DOMAIN execs :
        LoadsMissing(e) =>
            /\ execs'[e].result = ProcessResult(FALSE, 0, Some("Template not found"))
            /\ execs'[e].pc = "done"
            /\ UNCHANGED <<templates, run_logs, run_log_seq>>

\* C12: process_template called for a template id that has no row returns a
\* "not found" outcome without raising, creates no run_log row, makes no
\* fetch, summarizer or delivery call and changes no stored state.
C12_NotFoundIsSilent == [](C12_States) /\ [][C12_Steps]_vars

\* A template was deleted after the scheduler dispatched it and before its
\* execution loaded it.
C12_Witness ==
    \E e \in DOMAIN execs :
        /\ NotFound(e)
        /\ execs[e].origin = "sched"
        /\ ~Exists(execs[e].template_id)

\* C13: an error raised during a scheduler tick is caught and does not end
\* the scheduling loop: the loop never leaves its cycle, after a failed tick
\* it goes back to sleeping the interval, it is between two ticks again and
\* again, and whenever it is there the next tick can run.
C13_LoopSurvivesFailedTick ==
    /\ [](schedPc \in {"sleep", "commit", "dispatch", "failed"})
    /\ (schedPc = "failed") ~> (schedPc = "sleep")
    /\ []<>(schedPc = "sleep")
    /\ [](schedPc = "sleep" => ENABLED TickRead)

\* A tick has failed: a due template was deleted between the tick's read and
\* its commit, and the exception is in the except clause of main().
C13_Witness ==
    /\ schedPc = "failed"
    /\ \E id \in Jobs : ~Exists(id)

\* Execution e created a run_log row, returned, and the row is still there.
ReturnedWithRow(e) ==
    /\ execs[e].pc = "done"
    /\ execs[e].run_log_id # None
    /\ Val(execs[e].run_log_id) \in DOMAIN run_logs

DueAtRead ==
    {id \in DOMAIN templates :
        /\ templates[id].is_active
        /\ ~templates[id].in_progress
        /\ \/ templates[id].last_run_at = None
           \/ now >= Val(templates[id].last_run_at) + templates[id].frequency_hours}

C15_Steps ==
    /\ (schedPc = "sleep" /\ schedPc' = "commit")
          => /\ Range(schedIds') = DueAtRead
             /\ Len(schedIds') = Cardinality(DueAtRead)
    /\ (schedPc = "commit" /\ schedPc' # "commit"
            /\ \E i \in DOMAIN schedIds : Exists(schedIds[i]))
          => /\ schedPc' = "dispatch"
             /\ schedIds' = schedIds
    /\ (schedPc = "dispatch" /\ schedPc' # "dispatch")
          => /\ Len(execs') = Len(execs) + Len(schedIds)
             /\ \A i \in DOMAIN schedIds :
                   /\ execs'[Len(execs) + i].template_id = schedIds[i]
                   /\ execs'[Len(execs) + i].origin = "sched"
    /\ schedPc # "dispatch"
          => \A e \in DOMAIN execs' \ DOMAIN execs : execs'[e].origin # "sched"

C15_States ==
    \A e \in DOMAIN execs :
        (execs[e].origin = "sched" /\ execs[e].pc # "load" /\ ~NotFound(e))
            => execs[e].run_log_id # None

\* C15: a tick dispatches exactly one execution for each template that was
\* active, not in progress and due when the tick read the table, and none
\* for any other; each of the executions creates a run_log row of its own.
\* (Stated leniently: a tick all of whose due templates have been deleted
\* may dispatch nothing, and an execution that finds its template deleted
\* need not create a row.)
C15_TickDispatchesDueSet == [](C15_States) /\ [][C15_Steps]_vars

\* The positions in the attempts of e that belong to source i.
AttemptsOf(e, i) == {a \in DOMAIN execs[e].attempts : execs[e].attempts[a].src = i}

\* The candidate of the first fetch attempt for source i of e.
FirstCandidate(e, i) == execs[e].attempts[Min(AttemptsOf(e, i))].candidate

\* C16: for each source the first fetch attempt goes through the cached
\* chat id when the source has one, and through the identifier only when no
\* chat id is cached.
C16_CachedIdTriedFirst ==
    \A e \in DOMAIN execs :
        Collected(e) =>
            \A i \in DOMAIN execs[e].sources_data :
                AttemptsOf(e, i) # {} =>
                    LET src == execs[e].sources_data[i] IN
                    FirstCandidate(e, i) =
                        IF src.chat_id # None THEN Val(src.chat_id) ELSE src.identifier

\* A fetch attempt of e for source i went through the cached chat id and failed.
CachedFetchFailed(e, i) ==
    /\ execs[e].sources_data[i].chat_id # None
    /\ \E a \in AttemptsOf(e, i) :
          /\ execs[e].attempts[a].candidate = Val(execs[e].sources_data[i].chat_id)
          /\ ~execs[e].attempts[a].ok

\* C17: when a fetch through a source's cached chat id has failed during a
\* run, the source row has no cached chat id once the run is over.
C17_FailedCacheIsCleared ==
    \A e \in DOMAIN execs :
        (execs[e].pc = "done" /\ Exists(execs[e].template_id)) =>
            \A i \in DOMAIN execs[e].sources_data :
                CachedFetchFailed(e, i) =>
                    templates[execs[e].template_id].sources[i].chat_id = None

\* Source i of e had no cached chat id and was fetched through its identifier.
FetchedByIdentifier(e, i) ==
    /\ execs[e].sources_data[i].chat_id = None
    /\ \E a \in AttemptsOf(e, i) :
          /\ execs[e].attempts[a].candidate = execs[e].sources_data[i].identifier
          /\ execs[e].attempts[a].ok

\* C18: after a successful run that fetched a source without cached chat id
\* through its identifier, the source row holds the chat id the identifier
\* resolves to.
C18_ResolvedIdIsCached ==
    \A e \in DOMAIN execs :
        (execs[e].pc = "done" /\ Val(execs[e].result).success
            /\ Exists(execs[e].template_id)) =>
            \A i \in DOMAIN execs[e].sources_data :
                FetchedByIdentifier(e, i) =>
                    templates[execs[e].template_id].sources[i].chat_id
                        = Some(ChatId[execs[e].sources_data[i].identifier])

\* The identifiers of a sequence of source rows.
Identifiers(rows) == {rows[i].identifier : i \in DOMAIN rows}

\* An update_template request for template id is committed in this step.
Edited(id) ==
    /\ ownerOps' = ownerOps + 1
    /\ id \in Surviving
    /\ templates'[id] # templates[id]

C19_Steps ==
    \A id \in Jobs :
        Edited(id) =>
            LET old == templates[id].sources
                new == templates'[id].sources IN
            /\ \A r \in Range(old) :
                  r.identifier \in Identifiers(new) => r \in Range(new)
            /\ \A r \in Range(new) \ Range(old) :
                  /\ r.identifier \notin Identifiers(old)
                  /\ r.chat_id = None
                  /\ \A o \in Range(old) : o.id # r.id
            /\ \A r \in Range(old) \ Range(new) :
                  r.identifier \notin Identifiers(new)

\* C19: when update_template replaces a template's source list, every source
\* row whose identifier is in both the old and the new list stays the same
\* row with its cached chat id unchanged; only identifiers that are new get a
\* fresh row and only rows whose identifier was removed are deleted.
C19_EditPreservesKeptSources == [][C19_Steps]_vars

C20_Steps ==
    ownerOps' # ownerOps =>
        \A id \in Surviving :
            /\ templates'[id].in_progress = templates[id].in_progress
            /\ templates'[id].last_run_at = templates[id].last_run_at

\* C20: the owner's edits of a template (update_template, toggle_template)
\* leave its in_progress flag and its last_run_at as they were, also when
\* they commit while an execution for that template is in flight.
C20_EditsKeepFlagAndWatermark == [][C20_Steps]_vars

\* An update has replaced the source list of a template after an execution
\* loaded it and before that execution finalized; the flag is still set.
C20_Witness ==
    \E e \in DOMAIN execs :
        /\ MidRun(e)
        /\ ownerOps = 1
        /\ Exists(execs[e].template_id)
        /\ execs[e].sources_data # SourcesData(templates[execs[e].template_id].sources)
        /\ templates[execs[e].template_id].in_progress

\* ---- C21
\* What run_template_now hands to process_template as from_dt for a request
\* with the lookback x.hours_back, at the time of its commit.
LookbackOf(x) ==
    IF x.hours_back # None /\ Val(x.hours_back) # 0
    THEN Some(now - Val(x.hours_back)) ELSE None

C21_Steps ==
    \A e \in DOMAIN execs :
        LET x == execs[e]
            y == execs'[e] IN
        /\ (x.pc = "rn_commit" /\ y.pc = "load") => y.from_dt = LookbackOf(x)
        /\ (x.pc = "load" /\ y.pc = "collect") =>
                y.from_dt = IF x.from_dt # None THEN x.from_dt
                            ELSE templates[x.template_id].last_run_at
        /\ x.pc \notin {"rn_commit", "load"} => y.from_dt = x.from_dt

C21_States ==
    \A e \in DOMAIN execs :
        LET x == execs[e] IN
        /\ (x.origin = "sched" /\ x.pc = "load") => x.from_dt = None
        /\ \A k \in DOMAIN x.attempts :
              LET a == x.attempts[k] IN
              /\ a.from_datetime = x.from_dt
              /\ a.ok => \A d \in posts[ChannelOf(a.candidate)] :
                            (x.from_dt = None \/ d > Val(x.from_dt)) =>
                                \E m \in DOMAIN x.messages :
                                    x.messages[m] = [source |-> ChannelOf(a.candidate),
                                                     date |-> d]

\* C21: every fetch of an execution gets the execution's watermark, which is
\* the lookback override of a run-now request when one was given and
\* otherwise the template's last_run_at as the load phase read it; with no
\* watermark (None) a successful fetch returns every post of the channel.
C21_WatermarkIsOverrideOrLastRun == [](C21_States) /\ [][C21_Steps]_vars

\* A run-now execution has fetched with a watermark that is not its
\* template's last_run_at: the override was passed.
C21_Witness ==
    \E e \in DOMAIN execs :
        LET x == execs[e] IN
        /\ x.origin = "manual"
        /\ x.attempts # <<>>
        /\ x.attempts[1].ok
        /\ x.attempts[1].from_datetime # None
        /\ Exists(x.template_id)
        /\ x.attempts[1].from_datetime # templates[x.template_id].last_run_at

\* ---- C22
\* The length the claim's truncation would allow.  The code names no such
\* bound; any value below the length of the longest exception text that the
\* model raises ("summarize failed") gives the same result.
ErrorDescriptionBound == 12

\* C22: the error description stored in the run_logs row of a run that ended
\* in error is never longer than the fixed bound, whatever the text of the
\* exception was.
C22_ErrorDescriptionTruncated ==
    \A r \in DOMAIN run_logs :
        (run_logs[r].status = "error" /\ run_logs[r].error_message # None) =>
            Len(Val(run_logs[r].error_message)) <= ErrorDescriptionBound

\* ---- C23
\* The exception kinds the retry decorator retries.
RetriedKinds == {"status", "timeout", "connect"}

\* The texts process_template gets from str(exc) for them.
RetriedTexts == {"HTTP status error", "timeout", "connection failed"}

C23_States ==
    /\ summ.attempt <= 3
    /\ summ.pc = "call" => summ.attempt < 3
    /\ (summ.pc = "raised" /\ Val(summ.exc).kind \in RetriedKinds) => summ.attempt = 3
    /\ (summ.attempt = 3 /\ summ.pc \notin {"parse", "returned"}) => summ.pc = "raised"
    /\ \A e \in DOMAIN execs :
          LET x == execs[e] IN
          (x.pc = "done" /\ x.error_message # None
                /\ Val(x.error_message) \in RetriedTexts) =>
              /\ x.nSend = 0
              /\ ~Val(x.result).success
              /\ run_logs[Val(x.run_log_id)].status = "error"

C23_Steps ==
    \A e \in DOMAIN execs :
        LET x == execs[e]
            y == execs'[e] IN
        (x.pc = "summarizing" /\ y.pc # "summarizing" /\ summ.pc = "raised") =>
            /\ y.pc = "finalize"
            /\ ~y.success
            /\ y.error_message = Some(ExcText(Val(summ.exc)))

\* C23: a backend call that fails with a connection error, a timeout or an
\* HTTP status error is attempted again until 3 attempts have been made and
\* no further; the exception of the last attempt leaves summarize_messages,
\* and the execution that made the call ends as an error without delivering.
C23_RetriesStopAtThree == [](C23_States) /\ [][C23_Steps]_vars

\* An execution has ended in error after its summarizer call timed out.
C23_Witness ==
    \E e \in DOMAIN execs :
        /\ execs[e].pc = "done"
        /\ execs[e].error_message = Some("timeout")
        /\ run_logs[Val(execs[e].run_log_id)].status = "error"

\* ---- C24
\* An HTTP status error whose status is a client error other than 429.
ClientError(exc) ==
    exc.kind = "status" /\ 400 <= exc.status /\ exc.status < 500 /\ exc.status # 429

C25_EmptyListShortCircuit ==
    (summ.pc # "idle" /\ summ.messages = <<>>) =>
        /\ summ.pc = "returned"
        /\ Val(summ.result).text = <<"Nothing new.">>
        /\ Val(summ.result).prompt_tokens = Some(0)
        /\ Val(summ.result).completion_tokens = Some(0)
        /\ Val(summ.result).total_tokens = Some(0)
        /\ summ.attempt = 0
        /\ summ.payload = None

C25_Witness == summ.pc = "returned" /\ summ.messages = <<>> /\ summ.attempt = 0

\* ---- C26
\* C26: the posts text built for a request is at most MAX_INPUT_CHARS
\* characters long and holds at most MAX_POSTS posts.
C26_PostsTextWithinBudget ==
    summ.payload # None =>
        LET posts_text == Val(summ.payload).user.posts_text IN
        /\ posts_text.length <= MAX_INPUT_CHARS
        /\ Len(posts_text.posts) <= MAX_POSTS

\* ---- C27
\* The messages of a list whose text is not blank.
NonBlank(messages) == {i \in DOMAIN messages : messages[i].text.len > 0}

\* C27: the posts text built for a request has no post for a message with
\* blank text, and its posts carry the numbers 1, 2, ..., k in this order.
C27_PostsNumberedWithoutGaps ==
    summ.payload # None =>
        LET formatted == Val(summ.payload).user.posts_text.posts IN
        /\ Len(formatted) <= Cardinality(NonBlank(summ.messages))
        /\ \A j \in DOMAIN formatted : formatted[j].text > 0 /\ formatted[j].number = j

\* ---- C28
\* The heading the claim puts above appended custom instructions.
AdditionalInstructions == "Additional instructions"

\* C28: the system prompt of a request made with custom instructions that
\* are not blank begins with the default system prompt, has the heading after
\* it and ends with the custom instructions; without such instructions it is
\* the default system prompt.
C28_CustomInstructionsAppended ==
    summ.payload # None =>
        LET system == Val(summ.payload).system
            custom == summ.custom_instructions IN
        IF custom # None /\ Strip(Val(custom)) # <<>>
        THEN /\ Len(system) > Len(SYSTEM_PROMPT)
             /\ SubSeq(system, 1, Len(SYSTEM_PROMPT)) = SYSTEM_PROMPT
             /\ \E k \in DOMAIN system : system[k] = AdditionalInstructions
             /\ EndsWith(system, Strip(Val(custom)))
        ELSE system = SYSTEM_PROMPT

\* ---- C29
\* The position of the last newline of a text, 0 when it has none.
LastNewline(t) == Max({0} \cup {k \in DOMAIN t : t[k] = "\n"})

LastLineOf(t) == SubSeq(t, LastNewline(t) + 1, Len(t))

BeforeLastLine(t) == SubSeq(t, 1, LastNewline(t) - 1)

\* The line ends in ".", "!" or "?" (blanks after it aside), or has a link marker.
Complete(line) ==
    \/ Strip(line) # <<>> /\ Strip(line)[Len(Strip(line))] \in {".", "!", "?"}
    \/ \E k \in DOMAIN line : line[k] = "t.me/"

Stuck(id) ==
    \E e \in DOMAIN execs : execs[e].template_id = id /\ execs[e].finalize_failed

C30_States ==
    \A id \in DOMAIN templates : Stuck(id) => templates[id].in_progress

C30_Steps ==
    \A id \in DOMAIN templates :
        Stuck(id) =>
            /\ (schedPc = "sleep" /\ schedPc' = "commit") => id \notin Range(schedIds')
            /\ \A e \in DOMAIN execs' \ DOMAIN execs :
                    (execs'[e].template_id = id /\ execs'[e].origin = "manual") =>
                        execs'[e].result = RunNowRefused

\* C30: once the finalize phase of an execution of a template has failed, the
\* template's in_progress flag is true, no scheduler tick selects the
\* template and every run-now request for it is refused.
C30_FailedFinalizeLeavesJobStuck == [](C30_States) /\ [][C30_Steps]_vars

\* ---- C31
\* Template id is active, idle and due now.
DueIdle(id) ==
    /\ Exists(id)
    /\ templates[id].is_active
    /\ ~templates[id].in_progress
    /\ is_template_due(templates[id].last_run_at, templates[id].frequency_hours, now)

\* The scheduler has created a process_template task for template id.
Dispatched(id) ==
    \E e \in DOMAIN execs : execs[e].template_id = id /\ execs[e].origin = "sched"

\* C31: while the loop runs, a template that is active, idle and due is
\* eventually handed to process_template by a tick, unless the owner deletes
\* or deactivates it first.
C31_DueJobEventuallyDispatched ==
    \A id \in Jobs :
        DueIdle(id) ~> (Dispatched(id) \/ ~Exists(id) \/ ~templates[id].is_active)

\* ---- C32
\* ------------------------------------------- create_template / update_template
\* A mutation of validate_frequency: every value passes.
ValidateAnyFrequency(value) == TRUE

\* TemplateBase.validate_frequency: TRUE when the value is returned, FALSE
\* when ValueError is raised.
validate_frequency(value) == value \in {6, 12, 24}

\* The answer to a request, kept with the payload it answers.
Answer(p, status) == Some([request |-> p, status |-> status])

MaxRequests == 3   \* create and update requests served in SpecStore

\* POST /api/templates/ with payload p.  A payload that fails validation is
\* answered 422 before create_template is called; otherwise a row is added
\* with the next primary key, in_progress False and last_run_at None, and one
\* source row per entry of the list.
PostTemplate(p) ==
    LET id == Max(DOMAIN templates \cup {0}) + 1 IN
    /\ ownerOps < MaxRequests
    /\ IF validate_frequency(p.frequency_hours)
       THEN /\ templates' = [k \in DOMAIN templates \cup {id} |->
                    IF k = id
                    THEN NewTemplate(p.frequency_hours, p.is_active, None,
                            [i \in DOMAIN p.sources |->
                                Source(Max(SourceIds \cup {0}) + i, p.sources[i])])
                    ELSE templates[k]]
            /\ response' = Answer(p, 201)
       ELSE /\ response' = Answer(p, 422)
            /\ UNCHANGED templates
    /\ ownerOps' = ownerOps + 1
    /\ UNCHANGED <<deleting, summ, run_logs, run_log_seq, now, posts, schedPc, schedIds, execs>>

\* PUT /api/templates/{id} with payload p: 422 for a payload that fails
\* validation, 404 from _get_template for a missing row, otherwise the
\* assignments of update_template.
PutTemplate(id, p) ==
    /\ ownerOps < MaxRequests
    /\ IF ~validate_frequency(p.frequency_hours)
       THEN /\ response' = Answer(p, 422)
            /\ UNCHANGED templates
       ELSE IF ~Exists(id)
       THEN /\ response' = Answer(p, 404)
            /\ UNCHANGED templates
       ELSE /\ templates' = [templates EXCEPT
                    ![id].frequency_hours = p.frequency_hours,
                    ![id].is_active = p.is_active,
                    ![id].sources = ReplaceSources(@, p.sources, Max(SourceIds \cup {0}))]
            /\ response' = Answer(p, 200)
    /\ ownerOps' = ownerOps + 1
    /\ UNCHANGED <<deleting, summ, run_logs, run_log_seq, now, posts, schedPc, schedIds, execs>>

\* The frequency_hours values the owner sends: the three of the form, and
\* others.
FrequencyInputs == {0, 6, 8, 12, 24, 48}

TemplateInputs ==
    [frequency_hours : FrequencyInputs, is_active : BOOLEAN,
     sources : {<<>>, <<"@a">>}]

\* An empty store.
InitStore ==
    /\ templates = <<>>
    /\ run_logs = <<>>
    /\ run_log_seq = 0
    /\ now = 0
    /\ posts = [ch \in Channels |-> {0}]
    /\ schedPc = "sleep"
    /\ schedIds = <<>>
    /\ execs = <<>>
    /\ ownerOps = 0
    /\ response = None
    /\ deleting = None
    /\ summ = IdleSumm

NextStore ==
    \/ \E p \in TemplateInputs : PostTemplate(p)
    \/ \E id \in 1..MaxRequests, p \in TemplateInputs : PutTemplate(id, p)

\* Create and update requests against the store, nothing else running.
SpecStore == InitStore /\ [][NextStore]_vars

C32_States ==
    \A id \in DOMAIN templates : templates[id].frequency_hours \in {6, 12, 24}

C32_Steps ==
    (ownerOps' # ownerOps /\ Val(response').request.frequency_hours \notin {6, 12, 24})
        => /\ Val(response').status = 422
           /\ templates' = templates

\* C32: every stored template has frequency_hours 6, 12 or 24 after any
\* create and update requests; a request with another value is answered 422
\* and leaves the templates table as it was.
C32_FrequencyAlwaysAllowed == [](C32_States) /\ [][C32_Steps]_vars

\* A request with frequency_hours 8 was refused while templates are stored,
\* one of them changed by an accepted update.
C32_Witness ==
    /\ response # None
    /\ Val(response).request.frequency_hours = 8
    /\ Val(response).status = 422
    /\ \E id \in DOMAIN templates : templates[id].frequency_hours = 24
    /\ Cardinality(DOMAIN templates) = 2

\* ---- C33
\* Some execution for a template other than id has been created and has not
\* returned.
OtherPending(id) ==
    \E e \in DOMAIN execs : execs[e].template_id # id /\ execs[e].pc # "done"

\* The step that ends a tick by creating its tasks.
C33_Steps ==
    (schedPc = "dispatch" /\ schedPc' # "dispatch")
        => /\ schedPc' = "sleep"
           /\ Len(execs') = Len(execs) + Len(schedIds)
           /\ \A e \in DOMAIN execs' \ DOMAIN execs :
                    execs'[e].pc = "load" /\ execs'[e].result = None

\* C33: a tick ends with the step that creates its tasks, none of them
\* started or awaited; and while another template's execution never returns,
\* a template that is active, idle and due is still selected by a later tick,
\* and dispatched by it unless that tick's commit fails on a deleted row
\* (unless the owner deletes or deactivates the template first).
C33_TickDoesNotWaitForTasks ==
    /\ [][C33_Steps]_vars
    /\ \A id \in Jobs :
            (OtherPending(id) /\ DueIdle(id))
                ~> \/ Dispatched(id)
                   \/ ~Exists(id)
                   \/ ~templates[id].is_active
                   \/ (schedPc = "failed" /\ \E other \in Jobs : ~Exists(other))

\* A later tick has selected template 2 while the execution dispatched for
\* template 1 by an earlier tick has not moved.
C33_Witness ==
    /\ schedPc = "commit"
    /\ schedIds = <<2>>
    /\ \E e \in DOMAIN execs :
            execs[e].template_id = 1 /\ execs[e].origin = "sched" /\ execs[e].pc = "load"

\* ---- C34
\* The scheduler and the executions it dispatches, nothing else: no owner
\* request, no run-now request.
NextPair ==
    \/ TickRead
    \/ TickCommit
    \/ TickDispatch
    \/ \E e \in DOMAIN execs : Load(e)
    \/ \E e \in DOMAIN execs : Collect(e)
    \/ \E e \in DOMAIN execs : Summarize(e)
    \/ \E e \in DOMAIN execs : Deliver(e)
    \/ \E e \in DOMAIN execs : Finalize(e)
    \/ Tick

SpecPair == Init /\ [][NextPair]_vars

\* The step leaves every template other than id, and every run_log row of
\* another template, as it was, and adds no row for another template.
OthersUntouched(id) ==
    /\ DOMAIN templates' = DOMAIN templates
    /\ \A other \in DOMAIN templates \ {id} : templates'[other] = templates[other]
    /\ \A r \in DOMAIN run_logs :
            run_logs[r].template_id # id
                => r \in DOMAIN run_logs' /\ run_logs'[r] = run_logs[r]
    /\ \A r \in DOMAIN run_logs' \ DOMAIN run_logs : run_logs'[r].template_id = id

\* What the finalize step of e writes to its own template and run_log row
\* follows from e's own outcome and the time of the step.
OwnRowsFromOwnOutcome(e) ==
    LET x  == execs[e]
        id == x.template_id
        r  == Val(x.run_log_id)
    IN  (x.pc = "finalize" /\ execs'[e].pc = "done")
            => /\ ~templates'[id].in_progress
               /\ templates'[id].last_run_at =
                        IF x.success THEN Some(now) ELSE templates[id].last_run_at
               /\ run_logs'[r].status = IF x.success THEN "success" ELSE "error"
               /\ run_logs'[r].finished_at = Some(now)

C34_Steps ==
    \A e \in DOMAIN execs :
        execs'[e].pc # execs[e].pc
            => OthersUntouched(execs[e].template_id) /\ OwnRowsFromOwnOutcome(e)

\* C34: a step of a process_template execution changes no other template's
\* row (in_progress, last_run_at) and no other template's run_logs, however
\* the executions of different templates interleave; its finalize step sets
\* its own template's flag and watermark and its own run_log row from its own
\* outcome.
C34_ExecutionsTouchOnlyTheirJob == [][C34_Steps]_vars

\* One template's execution has finished while the other template's
\* execution, started before that, is still between load and finalize.
C34_Witness ==
    \E e1, e2 \in DOMAIN execs :
        /\ execs[e1].template_id # execs[e2].template_id
        /\ execs[e1].pc = "done"
        /\ execs[e1].success
        /\ execs[e2].pc \in {"summarize", "deliver", "finalize"}
        /\ templates[execs[e2].template_id].in_progress
        /\ run_logs[Val(execs[e2].run_log_id)].status = "running"
        /\ Val(execs[e2].run_log_id) < Val(execs[e1].run_log_id)

\* ---- C35
\* A post is published in channel ch, dated now.
Post(ch) ==
    /\ now \notin posts[ch]
    /\ posts' = [posts EXCEPT ![ch] = @ \cup {now}]
    /\ UNCHANGED <<deleting, response, summ, templates, run_logs, run_log_seq, now, schedPc, schedIds, execs, ownerOps>>

\* The scheduler and its executions while the channels go on publishing.
NextFeed ==
    \/ NextPair
    \/ \E ch \in Channels : Post(ch)

SpecFeed == Init /\ [][NextFeed]_vars

\* The posts of the sources of execution e dated after its watermark and at
\* or before t.
PostsBetween(e, t) ==
    LET x == execs[e] IN
    {[source |-> ChannelOf(x.sources_data[i].identifier), date |-> d] :
        <<i, d>> \in {<<j, c>> \in (DOMAIN x.sources_data) \X (0..MaxTime) :
            /\ c \in posts[ChannelOf(x.sources_data[j].identifier)]
            /\ x.from_dt = None \/ c > Val(x.from_dt)
            /\ c <= t}}

C35_Steps ==
    \A e \in DOMAIN execs :
        LET x == execs[e] IN
        (/\ x.pc = "finalize"
         /\ execs'[e].pc = "done"
         /\ x.success
         /\ Exists(x.template_id)
         /\ templates'[x.template_id].last_run_at = Some(now))
            => PostsBetween(e, now) \subseteq Range(x.messages)

\* C35: when a successful run sets last_run_at to T, every post of the
\* template's sources dated after the run's watermark and at or before T is
\* among the messages the run collected.
C35_WatermarkPassesOnlyCollected == [][C35_Steps]_vars

\* ---- C36
\* Execution e made fetch attempts and every one of them failed.
AllFetchesFailed(e) ==
    /\ execs[e].attempts # <<>>
    /\ \A a \in DOMAIN execs[e].attempts : ~execs[e].attempts[a].ok

RefusedCleanly(e) ==
    /\ execs[e].pc = "done"
    /\ execs[e].phases = <<>>
    /\ execs[e].run_log_id = None
    /\ execs[e].attempts = <<>>
    /\ execs[e].nSumm = 0 /\ execs[e].nSend = 0

C37_States ==
    \A e \in DOMAIN execs : execs[e].result = RunNowRefused => RefusedCleanly(e)

C37_Steps ==
    \A e \in DOMAIN execs' \ DOMAIN execs :
        (/\ execs'[e].origin = "manual"
         /\ Exists(execs'[e].template_id)
         /\ templates[execs'[e].template_id].in_progress)
            => /\ execs'[e].result = RunNowRefused
               /\ execs'[e].pc = "done"
               /\ \A old \in DOMAIN execs : execs'[old] = execs[old]
               /\ UNCHANGED <<templates, run_logs, run_log_seq, now, posts, schedPc,
                              schedIds, ownerOps, summ, response, deleting>>

\* C37: a run-now request that reads in_progress true is answered with the
\* failure outcome "already running"; it starts no execution, creates no
\* run_log row and changes nothing stored.
C37_RunNowRefusedWhileInProgress == [](C37_States) /\ [][C37_Steps]_vars

\* A run-now request was refused while the scheduler's execution for the same
\* template, its messages collected, was about to call the summarizer.
C37_Witness ==
    \E e1, e2 \in DOMAIN execs :
        /\ execs[e1].template_id = execs[e2].template_id
        /\ execs[e1].origin = "sched" /\ execs[e1].pc = "summarize"
        /\ execs[e2].origin = "manual" /\ execs[e2].result = RunNowRefused
        /\ Cardinality(DOMAIN run_logs) = 1

\* ---- C38
\* Execution e has returned from the except branch of process_template.
EndedInError(e) ==
    /\ execs[e].pc = "done"
    /\ execs[e].result # None
    /\ ~Val(execs[e].result).raised
    /\ ~Val(execs[e].result).success

\* C38: a run that ends in error has messages_count 0 in its run_log row and
\* in the outcome it returns, whatever it had collected before the failure.
C38_ErrorRunCountsZero ==
    \A e \in DOMAIN execs :
        EndedInError(e) =>
            /\ Val(execs[e].result).messages_count = 0
            /\ Val(execs[e].result).error # None
            /\ run_logs[Val(execs[e].run_log_id)].status = "error"
            /\ run_logs[Val(execs[e].run_log_id)].messages_count = 0

\* A run collected three messages, summarized them, and failed in delivery.
C38_Witness ==
    \E e \in DOMAIN execs :
        /\ EndedInError(e)
        /\ Len(execs[e].messages) = 3
        /\ execs[e].messages_count = 3
        /\ execs[e].nSend = 1

\* ---- C39
\* The number of fetch attempts of e for source i that succeeded.
Successes(e, i) == Cardinality({a \in AttemptsOf(e, i) : execs[e].attempts[a].ok})

\* The attempts of e for source i follow the candidates of the source in
\* order, one attempt per candidate, each but the last one failed.
AttemptsFollowCandidates(e, i) ==
    LET A     == AttemptsOf(e, i)
        cands == CandidatesOf(execs[e].sources_data[i])
        att   == execs[e].attempts
    IN  /\ Cardinality(A) <= Len(cands)
        /\ Len(cands) <= 2
        /\ A = {} <=> cands = <<>>
        /\ A # {} =>
            /\ A = Min(A)..Max(A)
            /\ \A a \in A : att[a].candidate = cands[a - Min(A) + 1]
            /\ \A a \in A \ {Max(A)} : ~att[a].ok
            /\ ~att[Max(A)].ok => Cardinality(A) = Len(cands)

RECURSIVE FetchedCount(_, _)
\* The number of messages one successful fetch per source gives, for the
\* sources i, i+1, ... of e: those of the attempt that succeeded, none for a
\* source without one.
FetchedCount(e, i) ==
    IF i > Len(execs[e].sources_data) THEN 0
    ELSE LET won == {a \in AttemptsOf(e, i) : execs[e].attempts[a].ok} IN
         (IF won = {} THEN 0
          ELSE Len(fetch_messages(execs[e].attempts[Min(won)].candidate, execs[e].from_dt)))
            + FetchedCount(e, i + 1)

\* C39: for each source the aggregator makes at most one fetch attempt per
\* candidate, in the order of the candidates and at most two; it goes on to
\* the second candidate only after the first attempt failed and makes no
\* attempt after a success; the result holds, for each source, the messages
\* of at most one successful fetch.
C39_OneFetchPerCandidate ==
    \A e \in DOMAIN execs :
        Collected(e) =>
            /\ \A i \in DOMAIN execs[e].sources_data :
                    AttemptsFollowCandidates(e, i) /\ Successes(e, i) <= 1
            /\ \A a \in DOMAIN execs[e].attempts :
                    execs[e].attempts[a].src \in DOMAIN execs[e].sources_data
            /\ Len(execs[e].messages) = FetchedCount(e, 1)

\* Three sources with cached chat ids: the first fetched at the first
\* attempt, the second at the second attempt, the third not at all.
C39_Witness ==
    \E e \in DOMAIN execs :
        /\ Collected(e)
        /\ Len(execs[e].sources_data) = 3
        /\ \A i \in 1..3 : execs[e].sources_data[i].chat_id # None
        /\ Cardinality(AttemptsOf(e, 1)) = 1 /\ Successes(e, 1) = 1
        /\ Cardinality(AttemptsOf(e, 2)) = 2 /\ Successes(e, 2) = 1
        /\ Cardinality(AttemptsOf(e, 3)) = 2 /\ Successes(e, 3) = 0
        /\ execs[e].messages # <<>>

\* ---- C40
\* The scheduler, its executions and delete requests, each request in its two
\* halves.
NextDelete ==
    \/ NextPair
    \/ TickFailed
    \/ \E id \in Jobs : DeleteRead(id)
    \/ DeleteCommit

SpecDelete == Init /\ [][NextDelete]_vars

C40_Steps ==
    /\ \A r \in DOMAIN run_logs \ DOMAIN run_logs' :
            run_logs[r].template_id \in DOMAIN templates \ DOMAIN templates'
    /\ \A e \in DOMAIN execs :
            (/\ execs[e].pc = "finalize"
             /\ execs'[e].pc = "done"
             /\ ~Exists(execs[e].template_id)) =>
                /\ Val(execs[e].run_log_id) \notin DOMAIN run_logs
                /\ UNCHANGED <<templates, run_logs>>
                /\ execs'[e].result # None
                /\ ~Val(execs'[e].result).raised
                /\ Val(execs'[e].result).success = execs[e].success

\* C40: a run_log row disappears only in the step that deletes its template;
\* the finalize phase of an execution whose template was deleted in flight
\* finds neither the template nor its run_log row, writes nothing, and the
\* execution returns its outcome.
C40_DeletedJobFinalizesSilently == [][C40_Steps]_vars

=============================================================================
